---- MODULE Spec2Model ----
(***************************************************************************)
(* Model of the chat exporter's export engine                              *)
(* (src/plugins/chatExporter/index.tsx): the RateLimiter, the message      *)
(* retrieval loop fetchChannelMessages, performExport, the formatter       *)
(* dispatch and the attachment download scheduler.                         *)
(*                                                                         *)
(* The job is a single async function on an event loop.  An action of this *)
(* module is the code that runs between two real suspension points (an     *)
(* HTTP answer, a timer): everything the handler does in between,          *)
(* including the calls it makes, is part of the action.                    *)
(***************************************************************************)
EXTENDS Integers, Sequences, FiniteSets, TLC

\* ------------------------------------------------------------------ bounds
\* non-empty pages the API delivers for one channel before it answers with an
\* empty page or a failure
MaxPages == 2
\* records in one page of the model (the code asks for up to PageLimit)
MaxPageLen == 2
\* largest message cap of the model's export requests
MaxCap == 2
\* attachments in one batch of the scheduler model
MaxAttachments == 6
\* retries after a 429 the attachment host causes in one batch
MaxRetried == 3

\* ------------------------------------------------------- program constants
maxRetries == 10
baseDelay == 1000
maxDelay == 60000
PageLimit == 100
CourtesyDelay == 200

\* ------------------------------------------------------------- the inputs
NoAuthor == "-"
Users == {"A", "B", "C"}

\* Raw API records.  Message ids are platform-wide unique and a record belongs
\* to one channel, so the API of channel c only ever delivers records of c.
\* Timestamps interleave across the two channels and tie once (ids 3 and 4);
\* record 7 has no author object (a malformed record).
Raw(id, ch, ts, au, atts) ==
    [id |-> id, channel_id |-> ch, timestamp |-> ts, author |-> au, attachments |-> atts]

Att(id, stem, ext, kind) == [id |-> id, stem |-> stem, ext |-> ext, kind |-> kind]

RawMessages ==
    { Raw(1, 1, 1, "A", <<>>),
      Raw(3, 1, 3, "B", << Att(31, "a", ".png", "image") >>),
      Raw(5, 1, 5, "C", <<>>),
      Raw(7, 1, 6, NoAuthor, <<>>),
      Raw(2, 2, 2, "B", <<>>),
      Raw(4, 2, 3, "C", << Att(41, "a", ".png", "image") >>) }

RawById(id) == CHOOSE r \in RawMessages : r.id = id

RawOf(ch) == { r \in RawMessages : r.channel_id = ch }

ChannelLists == { <<>>, <<1>>, <<1, 2>> }

\* the pages the API can answer with for channel ch: any sequence of the
\* channel's records, in any order, repetitions included
Pages(ch) == UNION { [1..n -> RawOf(ch)] : n \in 1..MaxPageLen }

\* the values of the retry-after header of a 429 answer; "" is an absent header
Headers == { "", "0", "2", "x" }
\* the values of the retry-after header of the attachment host
DownloadHeaders == { "", "2", "x" }
\* representatives of Math.random() * 1000
Jitters == { 0, 999 }

NaN == 0 - 1

NoFilter == [enabled |-> FALSE, userIds |-> {}, mode |-> "include"]
NoRange == [enabled |-> FALSE, start |-> 0, end |-> 0]

UserFilters ==
    { NoFilter }
    \cup { [enabled |-> TRUE, userIds |-> s, mode |-> m] :
             s \in { {}, {"A"}, {"A", "B"} }, m \in { "include", "exclude" } }

\* the date window of the model: records lie before it, on its start, on its
\* end and after it
Window == [enabled |-> TRUE, start |-> 2, end |-> 3]

Opt(cap, uf, dr, att, fmt) ==
    [messageLimit |-> cap, userFilter |-> uf, dateRange |-> dr,
     includeAttachments |-> att, format |-> fmt]

\* the export requests of the model: unfiltered with every cap, attachment
\* flag and document format; every user filter with every cap; the date window
\* with every cap, alone and together with a user filter
ExportOptions ==
    { Opt(cap, NoFilter, NoRange, att, fmt) :
        cap \in 0..MaxCap, att \in BOOLEAN, fmt \in { "json", "html" } }
    \cup { Opt(0, NoFilter, NoRange, FALSE, fmt) : fmt \in { "csv", "txt" } }
    \cup { Opt(cap, uf, NoRange, FALSE, "json") : cap \in 0..MaxCap, uf \in UserFilters }
    \cup { Opt(cap, uf, Window, FALSE, "json") :
             cap \in 0..MaxCap,
             uf \in { NoFilter, [enabled |-> TRUE, userIds |-> {"A", "B"}, mode |-> "include"] } }


\* ------------------------------------------------------------ pure helpers
RECURSIVE Reverse(_)
Reverse(s) == IF s = <<>> THEN <<>> ELSE Append(Reverse(Tail(s)), Head(s))

\* Array.prototype.slice(0, n)
Slice(s, n) == SubSeq(s, 1, IF n < Len(s) THEN n ELSE Len(s))

Range(s) == { s[k] : k \in 1..Len(s) }

NoMsg == [id |-> 0, timestamp |-> 0, author |-> NoAuthor, channel |-> 0, attachments |-> <<>>]

\* a user filter whose two modes are swapped
processMessageSwapped(rawMessage, opts) ==
    IF rawMessage.author = NoAuthor
    THEN [kind |-> "throw", message |-> NoMsg]
    ELSE LET filtering == opts.userFilter.enabled /\ Cardinality(opts.userFilter.userIds) > 0
             isIncluded == rawMessage.author \in opts.userFilter.userIds
         IN IF filtering /\ opts.userFilter.mode = "exclude" /\ ~isIncluded
            THEN [kind |-> "null", message |-> NoMsg]
            ELSE IF filtering /\ opts.userFilter.mode = "include" /\ isIncluded
            THEN [kind |-> "null", message |-> NoMsg]
            ELSE [kind |-> "message",
                  message |->
                    [id |-> rawMessage.id,
                     timestamp |-> rawMessage.timestamp,
                     author |-> rawMessage.author,
                     channel |-> rawMessage.channel_id,
                     attachments |-> IF opts.includeAttachments
                                     THEN rawMessage.attachments ELSE <<>>]]

\* a user filter that is applied also when its set of user ids is empty
processMessageEmptySetFilters(rawMessage, opts) ==
    IF rawMessage.author = NoAuthor
    THEN [kind |-> "throw", message |-> NoMsg]
    ELSE LET filtering == opts.userFilter.enabled
             isIncluded == rawMessage.author \in opts.userFilter.userIds
         IN IF filtering /\ opts.userFilter.mode = "include" /\ ~isIncluded
            THEN [kind |-> "null", message |-> NoMsg]
            ELSE IF filtering /\ opts.userFilter.mode = "exclude" /\ isIncluded
            THEN [kind |-> "null", message |-> NoMsg]
            ELSE [kind |-> "message",
                  message |->
                    [id |-> rawMessage.id,
                     timestamp |-> rawMessage.timestamp,
                     author |-> rawMessage.author,
                     channel |-> rawMessage.channel_id,
                     attachments |-> IF opts.includeAttachments
                                     THEN rawMessage.attachments ELSE <<>>]]

\* processMessage: the user filter, then the normalisation of the raw record.
\* Reading author.id of a record without author object throws.
processMessage(rawMessage, opts) ==
    IF rawMessage.author = NoAuthor
    THEN [kind |-> "throw", message |-> NoMsg]
    ELSE LET filtering == opts.userFilter.enabled /\ Cardinality(opts.userFilter.userIds) > 0
             isIncluded == rawMessage.author \in opts.userFilter.userIds
         IN IF filtering /\ opts.userFilter.mode = "include" /\ ~isIncluded
            THEN [kind |-> "null", message |-> NoMsg]
            ELSE IF filtering /\ opts.userFilter.mode = "exclude" /\ isIncluded
            THEN [kind |-> "null", message |-> NoMsg]
            ELSE [kind |-> "message",
                  message |->
                    [id |-> rawMessage.id,
                     timestamp |-> rawMessage.timestamp,
                     author |-> rawMessage.author,
                     channel |-> rawMessage.channel_id,
                     attachments |-> IF opts.includeAttachments
                                     THEN rawMessage.attachments ELSE <<>>]]

\* a date filter that lost its upper bound
shouldIncludeNoEnd(message, opts) ==
    \/ ~opts.dateRange.enabled
    \/ message.timestamp >= opts.dateRange.start

\* the client-side date filter of fetchChannelMessages
shouldInclude(message, opts) ==
    \/ ~opts.dateRange.enabled
    \/ (message.timestamp >= opts.dateRange.start /\ message.timestamp <= opts.dateRange.end)

\* a duplicate check that never fires
isDuplicateNever(rawMessage, seen) == FALSE

\* seenMessageIds.has(rawMessage.id)
isDuplicate(rawMessage, seen) == rawMessage.id \in seen

\* a cap check that is missing from the loop
limitReachedNever(msgs, opts) == FALSE

\* a cap check that fires one message late
limitReachedLate(msgs, opts) == opts.messageLimit > 0 /\ Len(msgs) > opts.messageLimit

\* a cap check that takes the cap 0 for a cap
limitReachedAtZero(msgs, opts) == Len(msgs) >= opts.messageLimit

\* options.messageLimit > 0 && messages.length >= options.messageLimit
limitReached(msgs, opts) == opts.messageLimit > 0 /\ Len(msgs) >= opts.messageLimit

\* a cursor taken from the first record of the page
LastIdOfFirst(fetchedMessages) == fetchedMessages[1].id

\* lastMessageId = fetchedMessages[fetchedMessages.length - 1].id
LastId(fetchedMessages) == fetchedMessages[Len(fetchedMessages)].id

\* a loop whose try/catch surrounds the whole page: a record that throws ends
\* the page
RECURSIVE ProcessRecordsAbortPage(_, _, _, _, _)
ProcessRecordsAbortPage(page, msgs, seen, fc, opts) ==
    IF page = <<>>
    THEN [messages |-> msgs, seenMessageIds |-> seen, fetchedCount |-> fc, limitHit |-> FALSE]
    ELSE LET rawMessage == Head(page) IN
         IF isDuplicate(rawMessage, seen)
         THEN ProcessRecordsAbortPage(Tail(page), msgs, seen, fc, opts)
         ELSE LET seen2 == seen \cup {rawMessage.id}
                  r == processMessage(rawMessage, opts)
              IN IF r.kind = "throw"
                 THEN [messages |-> msgs, seenMessageIds |-> seen2, fetchedCount |-> fc,
                       limitHit |-> FALSE]
                 ELSE LET keep == r.kind = "message" /\ shouldInclude(r.message, opts)
                          msgs2 == IF keep THEN Append(msgs, r.message) ELSE msgs
                          fc2 == IF keep THEN fc + 1 ELSE fc
                      IN IF limitReached(msgs2, opts)
                         THEN [messages |-> msgs2, seenMessageIds |-> seen2,
                               fetchedCount |-> fc2, limitHit |-> TRUE]
                         ELSE ProcessRecordsAbortPage(Tail(page), msgs2, seen2, fc2, opts)

\* the for loop of fetchChannelMessages over one page: it stops (limitHit) as
\* soon as a positive cap is reached
RECURSIVE ProcessRecords(_, _, _, _, _)
ProcessRecords(page, msgs, seen, fc, opts) ==
    IF page = <<>>
    THEN [messages |-> msgs, seenMessageIds |-> seen, fetchedCount |-> fc, limitHit |-> FALSE]
    ELSE LET rawMessage == Head(page) IN
         IF isDuplicate(rawMessage, seen)
         THEN ProcessRecords(Tail(page), msgs, seen, fc, opts)
         ELSE LET seen2 == seen \cup {rawMessage.id}
                  r == processMessage(rawMessage, opts)
              IN IF r.kind = "throw"
                 THEN ProcessRecords(Tail(page), msgs, seen2, fc, opts)
                 ELSE LET keep == r.kind = "message" /\ shouldInclude(r.message, opts)
                          msgs2 == IF keep THEN Append(msgs, r.message) ELSE msgs
                          fc2 == IF keep THEN fc + 1 ELSE fc
                      IN IF limitReached(msgs2, opts)
                         THEN [messages |-> msgs2, seenMessageIds |-> seen2,
                               fetchedCount |-> fc2, limitHit |-> TRUE]
                         ELSE ProcessRecords(Tail(page), msgs2, seen2, fc2, opts)

\* stable insertion of m into a sequence sorted by timestamp
RECURSIVE InsertByTimestamp(_, _)
InsertByTimestamp(sorted, m) ==
    IF sorted = <<>> THEN << m >>
    ELSE IF m.timestamp < Head(sorted).timestamp
         THEN << m >> \o sorted
         ELSE << Head(sorted) >> \o InsertByTimestamp(Tail(sorted), m)

\* [...messages].sort((a, b) => time(a) - time(b)), a stable sort
RECURSIVE SortByTimestamp(_)
SortByTimestamp(s) ==
    IF s = <<>> THEN <<>>
    ELSE InsertByTimestamp(SortByTimestamp(SubSeq(s, 1, Len(s) - 1)), s[Len(s)])

FormatterOf(format) ==
    CASE format = "json" -> "formatAsJSON"
      [] format = "csv" -> "formatAsCSV"
      [] format = "txt" -> "formatAsText"
      [] format = "html" -> "formatAsHTML"
      [] OTHER -> "formatAsJSON"

\* formatExportData: sorts a copy, then dispatches on the format.  The result
\* names the formatter and the sequence handed to it.
formatExportData(msgs, opts) ==
    [formatter |-> FormatterOf(opts.format), messages |-> SortByTimestamp(msgs)]

\* ------------------------------------------------------------ parseMarkdown
\* A text is a sequence of characters.  Inside the renderer a character
\* carries the mark u: TRUE for a character of the text that was passed in,
\* FALSE for a character a replace() emitted.
\* a character is a string of length one, but for the grave accent, which
\* a string cannot hold
Backtick == "grave"

User(str) == [k \in 1..Len(str) |-> [c |-> str[k], u |-> TRUE]]

Lit(str) == [k \in 1..Len(str) |-> [c |-> str[k], u |-> FALSE]]

Chars(s) == [k \in 1..Len(s) |-> s[k].c]

\* the characters of s from position p on begin with pat
StartsWith(s, p, pat) ==
    /\ p >= 1
    /\ p + Len(pat) - 1 <= Len(s)
    /\ \A k \in 1..Len(pat) : s[p + k - 1].c = pat[k]

\* \d and \w
Digit == { "0", "1", "2", "3", "4", "5", "6", "7", "8", "9" }
Word ==
    Digit \cup { "_" }
    \cup { "a", "b", "c", "d", "e", "f", "g", "h", "i", "j", "k", "l", "m", "n", "o", "p", "q",
            "r", "s", "t", "u", "v", "w", "x", "y", "z" }
    \cup { "A", "B", "C", "D", "E", "F", "G", "H", "I", "J", "K", "L", "M", "N", "O", "P", "Q",
            "R", "S", "T", "U", "V", "W", "X", "Y", "Z" }

\* the least position of a set of positions
First(positions) == CHOOSE q \in positions : \A r \in positions : q <= r

\* the last position of the longest run, from p on, of characters inside
\* (neg = FALSE) or outside (neg = TRUE) the set; p - 1 when the run is empty
RunEnd(s, p, set, neg) ==
    LET stops == { q \in p..Len(s) : (s[q].c \in set) = neg }
    IN IF p > Len(s) THEN p - 1
       ELSE IF stops = {} THEN Len(s)
       ELSE First(stops) - 1

\* the lazy group of (.+?)close and ([\s\S]+?)close, the group's first
\* character already taken: the first position q from which close matches,
\* reached over characters the group may hold; 0 when there is none
FindClose(s, q, close, dot) ==
    LET found == { m \in q..(Len(s) - Len(close) + 1) : StartsWith(s, m, close) }
    IN IF found = {} THEN 0
       ELSE IF dot /\ \E r \in q..(First(found) - 1) : s[r].c = "\n" THEN 0
       ELSE First(found)

\* String.prototype.trim
RECURSIVE TrimLeft(_)
TrimLeft(s) ==
    IF s # <<>> /\ Head(s).c \in { " ", "\n", "\t", "\r" } THEN TrimLeft(Tail(s)) ELSE s

RECURSIVE TrimRight(_)
TrimRight(s) ==
    IF s # <<>> /\ s[Len(s)].c \in { " ", "\n", "\t", "\r" }
    THEN TrimRight(SubSeq(s, 1, Len(s) - 1))
    ELSE s

Trim(s) == TrimRight(TrimLeft(s))

\* ---- the passes of parseMarkdown, in the order of the source
\* .replace(/&/g, "&amp;")
EscAmp ==
    [ kind |-> "lit",
      a |-> << "&" >>,
      b |-> <<>>,
      pre |-> << "&", "a", "m", "p", ";" >>,
      mid |-> <<>>,
      mid2 |-> <<>>,
      post |-> <<>> ]

\* .replace(/</g, "&lt;")
EscLt ==
    [ kind |-> "lit",
      a |-> << "<" >>,
      b |-> <<>>,
      pre |-> << "&", "l", "t", ";" >>,
      mid |-> <<>>,
      mid2 |-> <<>>,
      post |-> <<>> ]

\* .replace(/>/g, "&gt;")
EscGt ==
    [ kind |-> "lit",
      a |-> << ">" >>,
      b |-> <<>>,
      pre |-> << "&", "g", "t", ";" >>,
      mid |-> <<>>,
      mid2 |-> <<>>,
      post |-> <<>> ]

\* .replace(/"/g, "&quot;")
EscQuot ==
    [ kind |-> "lit",
      a |-> << "\"" >>,
      b |-> <<>>,
      pre |-> << "&", "q", "u", "o", "t", ";" >>,
      mid |-> <<>>,
      mid2 |-> <<>>,
      post |-> <<>> ]

\* .replace(/'/g, "&#039;")
EscApos ==
    [ kind |-> "lit",
      a |-> << "'" >>,
      b |-> <<>>,
      pre |-> << "&", "#", "0", "3", "9", ";" >>,
      mid |-> <<>>,
      mid2 |-> <<>>,
      post |-> <<>> ]

\* /\*\*(.+?)\*\*/g -> <strong>$1</strong>
Bold ==
    [ kind |-> "lazy",
      a |-> << "*", "*" >>,
      b |-> << "*", "*" >>,
      pre |-> << "<", "s", "t", "r", "o", "n", "g", ">" >>,
      mid |-> <<>>,
      mid2 |-> <<>>,
      post |-> << "<", "/", "s", "t", "r", "o", "n", "g", ">" >> ]

\* /\*(.+?)\*/g -> <em>$1</em>
ItalicStar ==
    [ kind |-> "lazy",
      a |-> << "*" >>,
      b |-> << "*" >>,
      pre |-> << "<", "e", "m", ">" >>,
      mid |-> <<>>,
      mid2 |-> <<>>,
      post |-> << "<", "/", "e", "m", ">" >> ]

\* /_(.+?)_/g -> <em>$1</em>
ItalicUnderscore ==
    [ kind |-> "lazy",
      a |-> << "_" >>,
      b |-> << "_" >>,
      pre |-> << "<", "e", "m", ">" >>,
      mid |-> <<>>,
      mid2 |-> <<>>,
      post |-> << "<", "/", "e", "m", ">" >> ]

\* /__(.+?)__/g -> <u>$1</u>
Underline ==
    [ kind |-> "lazy",
      a |-> << "_", "_" >>,
      b |-> << "_", "_" >>,
      pre |-> << "<", "u", ">" >>,
      mid |-> <<>>,
      mid2 |-> <<>>,
      post |-> << "<", "/", "u", ">" >> ]

\* /~~(.+?)~~/g -> <del>$1</del>
Strikethrough ==
    [ kind |-> "lazy",
      a |-> << "~", "~" >>,
      b |-> << "~", "~" >>,
      pre |-> << "<", "d", "e", "l", ">" >>,
      mid |-> <<>>,
      mid2 |-> <<>>,
      post |-> << "<", "/", "d", "e", "l", ">" >> ]

\* inline code, a backtick, characters other than it, a backtick -> <code>$1</code>
InlineCode ==
    [ kind |-> "code",
      a |-> << Backtick >>,
      b |-> << Backtick >>,
      pre |-> << "<", "c", "o", "d", "e", ">" >>,
      mid |-> <<>>,
      mid2 |-> <<>>,
      post |-> << "<", "/", "c", "o", "d", "e", ">" >> ]

\* a code block, three backticks (\w+)?\n([\s\S]+?) three backticks -> <pre><code class="language-$1">trim($2)</code></pre>
CodeBlock ==
    [ kind |-> "block",
      a |-> << Backtick, Backtick, Backtick >>,
      b |-> << Backtick, Backtick, Backtick >>,
      pre |-> << "<", "p", "r", "e", ">", "<", "c", "o", "d", "e", " ", "c", "l", "a", "s", "s", "=", "\"",
            "l", "a", "n", "g", "u", "a", "g", "e", "-" >>,
      mid |-> << "\"", ">" >>,
      mid2 |-> << "p", "l", "a", "i", "n", "t", "e", "x", "t" >>,
      post |-> << "<", "/", "c", "o", "d", "e", ">", "<", "/", "p", "r", "e", ">" >> ]

\* /\|\|(.+?)\|\|/g -> the spoiler span
Spoiler ==
    [ kind |-> "lazy",
      a |-> << "|", "|" >>,
      b |-> << "|", "|" >>,
      pre |-> << "<", "s", "p", "a", "n", " ", "c", "l", "a", "s", "s", "=", "\"", "s", "p", "o", "i", "l",
            "e", "r", "\"", " ", "o", "n", "c", "l", "i", "c", "k", "=", "\"", "t", "h", "i",
            "s", ".", "c", "l", "a", "s", "s", "L", "i", "s", "t", ".", "t", "o", "g", "g",
            "l", "e", "(", "'", "r", "e", "v", "e", "a", "l", "e", "d", "'", ")", "\"", ">" >>,
      mid |-> <<>>,
      mid2 |-> <<>>,
      post |-> << "<", "/", "s", "p", "a", "n", ">" >> ]

\* /^&gt; (.+)$/gm -> <blockquote>$1</blockquote>
BlockQuote ==
    [ kind |-> "line",
      a |-> << "&", "g", "t", ";", " " >>,
      b |-> <<>>,
      pre |-> << "<", "b", "l", "o", "c", "k", "q", "u", "o", "t", "e", ">" >>,
      mid |-> <<>>,
      mid2 |-> <<>>,
      post |-> << "<", "/", "b", "l", "o", "c", "k", "q", "u", "o", "t", "e", ">" >> ]

\* /^### (.+)$/gm -> <h3>$1</h3>
Header3 ==
    [ kind |-> "line",
      a |-> << "#", "#", "#", " " >>,
      b |-> <<>>,
      pre |-> << "<", "h", "3", ">" >>,
      mid |-> <<>>,
      mid2 |-> <<>>,
      post |-> << "<", "/", "h", "3", ">" >> ]

\* /^## (.+)$/gm -> <h2>$1</h2>
Header2 ==
    [ kind |-> "line",
      a |-> << "#", "#", " " >>,
      b |-> <<>>,
      pre |-> << "<", "h", "2", ">" >>,
      mid |-> <<>>,
      mid2 |-> <<>>,
      post |-> << "<", "/", "h", "2", ">" >> ]

\* /^# (.+)$/gm -> <h1>$1</h1>
Header1 ==
    [ kind |-> "line",
      a |-> << "#", " " >>,
      b |-> <<>>,
      pre |-> << "<", "h", "1", ">" >>,
      mid |-> <<>>,
      mid2 |-> <<>>,
      post |-> << "<", "/", "h", "1", ">" >> ]

\* /\[([^\]]+)\]\(([^)]+)\)/g -> <a href="$2" target="_blank" rel="noopener">$1</a>
Link ==
    [ kind |-> "link",
      a |-> <<>>,
      b |-> <<>>,
      pre |-> << "<", "a", " ", "h", "r", "e", "f", "=", "\"" >>,
      mid |-> << "\"", " ", "t", "a", "r", "g", "e", "t", "=", "\"", "_", "b", "l", "a", "n", "k", "\"", " ",
            "r", "e", "l", "=", "\"", "n", "o", "o", "p", "e", "n", "e", "r", "\"", ">" >>,
      mid2 |-> <<>>,
      post |-> << "<", "/", "a", ">" >> ]

\* /&lt;:(\w+):(\d+)&gt;/g -> the emoji image
CustomEmoji ==
    [ kind |-> "emoji",
      a |-> << "&", "l", "t", ";", ":" >>,
      b |-> << "&", "g", "t", ";" >>,
      pre |-> << "<", "i", "m", "g", " ", "c", "l", "a", "s", "s", "=", "\"", "e", "m", "o", "j", "i", "\"",
            " ", "s", "r", "c", "=", "\"", "h", "t", "t", "p", "s", ":", "/", "/", "c", "d",
            "n", ".", "d", "i", "s", "c", "o", "r", "d", "a", "p", "p", ".", "c", "o", "m",
            "/", "e", "m", "o", "j", "i", "s", "/" >>,
      mid |-> << ".", "p", "n", "g", "\"", " ", "a", "l", "t", "=", "\"", ":" >>,
      mid2 |-> << ":", "\"", " ", "t", "i", "t", "l", "e", "=", "\"", ":" >>,
      post |-> << ":", "\"", ">" >> ]

\* /&lt;a:(\w+):(\d+)&gt;/g -> the animated emoji image
AnimatedEmoji ==
    [ kind |-> "emoji",
      a |-> << "&", "l", "t", ";", "a", ":" >>,
      b |-> << "&", "g", "t", ";" >>,
      pre |-> << "<", "i", "m", "g", " ", "c", "l", "a", "s", "s", "=", "\"", "e", "m", "o", "j", "i", " ",
            "a", "n", "i", "m", "a", "t", "e", "d", "\"", " ", "s", "r", "c", "=", "\"", "h",
            "t", "t", "p", "s", ":", "/", "/", "c", "d", "n", ".", "d", "i", "s", "c", "o",
            "r", "d", "a", "p", "p", ".", "c", "o", "m", "/", "e", "m", "o", "j", "i", "s",
            "/" >>,
      mid |-> << ".", "g", "i", "f", "\"", " ", "a", "l", "t", "=", "\"", ":" >>,
      mid2 |-> << ":", "\"", " ", "t", "i", "t", "l", "e", "=", "\"", ":" >>,
      post |-> << ":", "\"", ">" >> ]

\* /&lt;@!?(\d+)&gt;/g -> the @User span
UserMention ==
    [ kind |-> "mention",
      a |-> << "&", "l", "t", ";", "@" >>,
      b |-> << "&", "g", "t", ";" >>,
      pre |-> << "<", "s", "p", "a", "n", " ", "c", "l", "a", "s", "s", "=", "\"", "m", "e", "n", "t", "i",
            "o", "n", "\"", ">", "@", "U", "s", "e", "r", "<", "/", "s", "p", "a", "n", ">" >>,
      mid |-> << "!" >>,
      mid2 |-> <<>>,
      post |-> <<>> ]

\* /&lt;@&amp;(\d+)&gt;/g -> the @Role span
RoleMention ==
    [ kind |-> "mention",
      a |-> << "&", "l", "t", ";", "@", "&", "a", "m", "p", ";" >>,
      b |-> << "&", "g", "t", ";" >>,
      pre |-> << "<", "s", "p", "a", "n", " ", "c", "l", "a", "s", "s", "=", "\"", "m", "e", "n", "t", "i",
            "o", "n", "\"", ">", "@", "R", "o", "l", "e", "<", "/", "s", "p", "a", "n", ">" >>,
      mid |-> <<>>,
      mid2 |-> <<>>,
      post |-> <<>> ]

\* /&lt;#(\d+)&gt;/g -> the #channel span
ChannelMention ==
    [ kind |-> "mention",
      a |-> << "&", "l", "t", ";", "#" >>,
      b |-> << "&", "g", "t", ";" >>,
      pre |-> << "<", "s", "p", "a", "n", " ", "c", "l", "a", "s", "s", "=", "\"", "m", "e", "n", "t", "i",
            "o", "n", "\"", ">", "#", "c", "h", "a", "n", "n", "e", "l", "<", "/", "s", "p",
            "a", "n", ">" >>,
      mid |-> <<>>,
      mid2 |-> <<>>,
      post |-> <<>> ]

\* /\n/g -> <br>
LineBreak ==
    [ kind |-> "lit",
      a |-> << "\n" >>,
      b |-> <<>>,
      pre |-> << "<", "b", "r", ">" >>,
      mid |-> <<>>,
      mid2 |-> <<>>,
      post |-> <<>> ]

\* /<\/blockquote><br><blockquote>/g -> <br>
MergeQuotes ==
    [ kind |-> "lit",
      a |-> << "<", "/", "b", "l", "o", "c", "k", "q", "u", "o", "t", "e", ">", "<", "b", "r", ">", "<",
            "b", "l", "o", "c", "k", "q", "u", "o", "t", "e", ">" >>,
      b |-> <<>>,
      pre |-> << "<", "b", "r", ">" >>,
      mid |-> <<>>,
      mid2 |-> <<>>,
      post |-> <<>> ]

NoMatch == [ok |-> FALSE, end |-> 0, out |-> <<>>]

Matched(end, result) == [ok |-> TRUE, end |-> end, out |-> result]

\* a literal pattern
MatchLit(s, p, pat) ==
    IF StartsWith(s, p, pat.a) THEN Matched(p + Len(pat.a) - 1, Lit(pat.pre)) ELSE NoMatch

\* a literal pattern behind an optional one (pat.mid)
MatchOptLit(s, p, pat) ==
    IF StartsWith(s, p, pat.mid \o pat.a)
    THEN Matched(p + Len(pat.mid) + Len(pat.a) - 1, Lit(pat.pre))
    ELSE MatchLit(s, p, pat)

\* open(.+?)close
MatchLazy(s, p, pat) ==
    LET g == p + Len(pat.a)
        q == FindClose(s, g + 1, pat.b, TRUE)
    IN IF StartsWith(s, p, pat.a) /\ g <= Len(s) /\ s[g].c # "\n" /\ q > 0
       THEN Matched(q + Len(pat.b) - 1, Lit(pat.pre) \o SubSeq(s, g, q - 1) \o Lit(pat.post))
       ELSE NoMatch

\* Backtick ([^Backtick]+) Backtick
MatchCode(s, p, pat) ==
    LET g == p + Len(pat.a)
        e == RunEnd(s, g, { Backtick }, TRUE)
    IN IF StartsWith(s, p, pat.a) /\ e >= g /\ StartsWith(s, e + 1, pat.b)
       THEN Matched(e + Len(pat.b), Lit(pat.pre) \o SubSeq(s, g, e) \o Lit(pat.post))
       ELSE NoMatch

\* three backticks (\w+)?\n([\s\S]+?) three backticks
MatchBlock(s, p, pat) ==
    LET l == p + Len(pat.a)
        le == RunEnd(s, l, Word, FALSE)
        g == le + 2
        q == FindClose(s, g + 1, pat.b, FALSE)
        lang == IF le >= l THEN SubSeq(s, l, le) ELSE Lit(pat.mid2)
    IN IF StartsWith(s, p, pat.a) /\ StartsWith(s, le + 1, << "\n" >>) /\ g <= Len(s) /\ q > 0
       THEN Matched(q + Len(pat.b) - 1,
                    Lit(pat.pre) \o lang \o Lit(pat.mid) \o Trim(SubSeq(s, g, q - 1))
                      \o Lit(pat.post))
       ELSE NoMatch

\* ^prefix(.+)$ with the flag m
MatchLine(s, p, pat) ==
    LET g == p + Len(pat.a)
        e == RunEnd(s, g, { "\n" }, TRUE)
    IN IF (p = 1 \/ s[p - 1].c = "\n") /\ StartsWith(s, p, pat.a) /\ e >= g
       THEN Matched(e, Lit(pat.pre) \o SubSeq(s, g, e) \o Lit(pat.post))
       ELSE NoMatch

\* \[([^\]]+)\]\(([^)]+)\)
MatchLink(s, p, pat) ==
    LET te == RunEnd(s, p + 1, { "]" }, TRUE)
        u == te + 3
        ue == RunEnd(s, u, { ")" }, TRUE)
    IN IF StartsWith(s, p, << "[" >>) /\ te >= p + 1 /\ StartsWith(s, te + 1, << "]", "(" >>)
          /\ ue >= u /\ StartsWith(s, ue + 1, << ")" >>)
       THEN Matched(ue + 1,
                    Lit(pat.pre) \o SubSeq(s, u, ue) \o Lit(pat.mid) \o SubSeq(s, p + 1, te)
                      \o Lit(pat.post))
       ELSE NoMatch

\* prefix(\w+):(\d+)&gt;
MatchEmoji(s, p, pat) ==
    LET n == p + Len(pat.a)
        ne == RunEnd(s, n, Word, FALSE)
        d == ne + 2
        de == RunEnd(s, d, Digit, FALSE)
        name == SubSeq(s, n, ne)
    IN IF StartsWith(s, p, pat.a) /\ ne >= n /\ StartsWith(s, ne + 1, << ":" >>)
          /\ de >= d /\ StartsWith(s, de + 1, pat.b)
       THEN Matched(de + Len(pat.b),
                    Lit(pat.pre) \o SubSeq(s, d, de) \o Lit(pat.mid) \o name \o Lit(pat.mid2)
                      \o name \o Lit(pat.post))
       ELSE NoMatch

\* prefix!?(\d+)&gt; (pat.mid is the optional character, if there is one)
MatchMention(s, p, pat) ==
    LET o == p + Len(pat.a)
        d == IF pat.mid # <<>> /\ StartsWith(s, o, pat.mid) THEN o + Len(pat.mid) ELSE o
        de == RunEnd(s, d, Digit, FALSE)
    IN IF StartsWith(s, p, pat.a) /\ de >= d /\ StartsWith(s, de + 1, pat.b)
       THEN Matched(de + Len(pat.b), Lit(pat.pre))
       ELSE NoMatch

\* the match of the pattern that begins at position p, if there is one
Match(s, p, pat) ==
    CASE pat.kind = "lit" -> MatchLit(s, p, pat)
      [] pat.kind = "optlit" -> MatchOptLit(s, p, pat)
      [] pat.kind = "lazy" -> MatchLazy(s, p, pat)
      [] pat.kind = "code" -> MatchCode(s, p, pat)
      [] pat.kind = "block" -> MatchBlock(s, p, pat)
      [] pat.kind = "line" -> MatchLine(s, p, pat)
      [] pat.kind = "link" -> MatchLink(s, p, pat)
      [] pat.kind = "emoji" -> MatchEmoji(s, p, pat)
      [] OTHER -> MatchMention(s, p, pat)

\* String.prototype.replace with a global pattern: the matches from left to
\* right, each search going on behind the last match
RECURSIVE ReplaceFrom(_, _, _)
ReplaceFrom(s, p, pat) ==
    LET found == { q \in p..Len(s) : Match(s, q, pat).ok }
    IN IF found = {} THEN SubSeq(s, p, Len(s))
       ELSE LET q == First(found)
                m == Match(s, q, pat)
            IN SubSeq(s, p, q - 1) \o m.out \o ReplaceFrom(s, m.end + 1, pat)

Replace(s, pat) == ReplaceFrom(s, 1, pat)

\* the passes applied one after the other
RECURSIVE ReplaceEach(_, _)
ReplaceEach(s, pats) ==
    IF pats = <<>> THEN s ELSE ReplaceEach(Replace(s, Head(pats)), Tail(pats))

\* an escaping that forgets the character >
escapeHtmlWithoutGt(s) == ReplaceEach(s, << EscAmp, EscLt, EscQuot, EscApos >>)

\* an escaping that leaves an & alone
escapeHtmlWithoutAmp(s) == ReplaceEach(s, << EscLt, EscGt, EscQuot, EscApos >>)

\* "Escape HTML first"
escapeHtml(s) == ReplaceEach(s, << EscAmp, EscLt, EscGt, EscQuot, EscApos >>)

MarkdownPasses ==
    << Bold, ItalicStar, ItalicUnderscore, Underline, Strikethrough, InlineCode, CodeBlock,
       Spoiler, BlockQuote, Header3, Header2, Header1, Link, CustomEmoji, AnimatedEmoji,
       UserMention, RoleMention, ChannelMention, LineBreak, MergeQuotes >>

\* parseMarkdown: the result as marked characters
parseMarkdown(str) ==
    IF str = <<>> THEN <<>> ELSE ReplaceEach(escapeHtml(User(str)), MarkdownPasses)

\* --------------------------------------------------------------- formatAsCSV
\* /\r?\n/g -> " "
CsvNewline ==
    [ kind |-> "optlit",
      a |-> << "\n" >>,
      b |-> <<>>,
      pre |-> << " " >>,
      mid |-> << "\r" >>,
      mid2 |-> <<>>,
      post |-> <<>> ]

\* /"/g -> ""
CsvQuote ==
    [ kind |-> "lit",
      a |-> << "\"" >>,
      b |-> <<>>,
      pre |-> << "\"", "\"" >>,
      mid |-> <<>>,
      mid2 |-> <<>>,
      post |-> <<>> ]

\* content.replace(/\r?\n/g, " ") and then every quote doubled
CsvFlatten(str) == Chars(ReplaceEach(User(str), << CsvNewline, CsvQuote >>))

\* Array.prototype.join
RECURSIVE Join(_, _)
Join(strs, sep) ==
    IF strs = <<>> THEN <<>>
    ELSE IF Len(strs) = 1 THEN Head(strs)
    ELSE Head(strs) \o sep \o Join(Tail(strs), sep)

Quoted(str) == << "\"" >> \o str \o << "\"" >>

CsvHeaders ==
    << << "T", "i", "m", "e", "s", "t", "a", "m", "p" >>,
       << "C", "h", "a", "n", "n", "e", "l" >>,
       << "A", "u", "t", "h", "o", "r" >>,
       << "C", "o", "n", "t", "e", "n", "t" >>,
       << "A", "t", "t", "a", "c", "h", "m", "e", "n", "t", "s" >>,
       << "R", "e", "a", "c", "t", "i", "o", "n", "s" >>,
       << "R", "e", "p", "l", "y", " ", "T", "o" >> >>

\* the row of one message
CsvRow(message) ==
    Join(<< Quoted(message.timestamp),
            Quoted(message.channel),
            Quoted(message.username \o << "#" >> \o message.discriminator),
            Quoted(CsvFlatten(message.content)),
            Quoted(Join(message.attachments, << ",", " " >>)),
            Quoted(Join([k \in 1..Len(message.reactions) |->
                           message.reactions[k].emoji \o << "(" >> \o message.reactions[k].count
                             \o << ")" >>],
                        << ",", " " >>)),
            Quoted(IF message.reply.has THEN CsvFlatten(message.reply.content) ELSE <<>>) >>,
         << "," >>)

\* formatAsCSV: the header row and one row per message, joined by newlines
formatAsCSV(messages) ==
    Join(<< Join(CsvHeaders, << "," >>) >> \o [k \in 1..Len(messages) |-> CsvRow(messages[k])],
         << "\n" >>)

\* ------------------------------------- formatAsHTML, formatAsHTMLWithAttachments
\* The message loop of the two HTML formatters as marked characters: the
\* characters of the template literals are marked as the program's, those of
\* the interpolated fields as the user's.  The static head of the document
\* (style sheet, title, export date) is left out.  Two characters of the
\* templates that a string cannot hold have a name.
ReplyArrow == "arrow"
Paperclip == "clip"

\* message.author.displayName || username#discriminator
HtmlAuthor(message) ==
    IF message.author.displayName # <<>>
    THEN message.author.displayName
    ELSE message.author.username \o << "#" >> \o message.author.discriminator

\* reply.content.substring(0, 100), and "..." after a longer content
HtmlReplyPreview(content) ==
    IF Len(content) > 100
    THEN User(SubSeq(content, 1, 100)) \o Lit(<< ".", ".", "." >>)
    ELSE User(content)

\* the channel heading, written when the channel name changes: no # for a DM
\* or a group DM
HtmlChannelHeading(channel, open) ==
    (IF open THEN Lit(<< "<", "/", "d", "i", "v", ">" >>) ELSE <<>>)
    \o Lit(<< "<", "d", "i", "v", " ", "c", "l", "a", "s", "s", "=", "\"", "c", "h", "a", "n", "n",
           "e", "l", "\"", ">", "<", "h", "2", ">" >>)
    \o (IF channel.type \in { 1, 3 } THEN <<>> ELSE Lit(<< "#" >>))
    \o User(channel.name)
    \o Lit(<< "<", "/", "h", "2", ">" >>)

\* one attachment in formatAsHTML
HtmlAttachment(att) ==
    Lit(<< "<", "d", "i", "v", " ", "c", "l", "a", "s", "s", "=", "\"", "a", "t", "t", "a", "c",
           "h", "m", "e", "n", "t", "\"", ">", Paperclip, " " >>)
    \o User(att.filename)
    \o Lit(<< "<", "/", "d", "i", "v", ">" >>)

\* one attachment in formatAsHTMLWithAttachments: an image, a video (not a
\* .gifv, content type video/mp4), or another file with its size
HtmlLocalAttachment(att) ==
    LET localPath == Lit(<< "a", "t", "t", "a", "c", "h", "m", "e", "n", "t", "s", "/" >>)
                     \o User(att.filename)
        filename == User(att.filename)
    IN IF att.kind = "image"
       THEN Lit(<< "<", "d", "i", "v", " ", "c", "l", "a", "s", "s", "=", "\"", "a", "t", "t",
                   "a", "c", "h", "m", "e", "n", "t", "\"", ">", "\n", " ", " ", " ", " ", " ",
                   " ", " ", " ", " ", " ", " ", " ", " ", " ", " ", " ", " ", " ", " ", " ",
                   " ", " ", " ", " ", "<", "a", " ", "h", "r", "e", "f", "=", "\"" >>)
            \o localPath \o Lit(<< "\"", " ", "t", "a", "r", "g", "e", "t", "=", "\"", "_", "b", "l", "a", "n",
                   "k", "\"", ">", Paperclip, " " >>)
            \o filename \o Lit(<< "<", "/", "a", ">", "<", "b", "r", "/", ">", "\n", " ", " ", " ", " ", " ",
                   " ", " ", " ", " ", " ", " ", " ", " ", " ", " ", " ", " ", " ", " ", " ",
                   " ", " ", " ", " ", "<", "i", "m", "g", " ", "s", "r", "c", "=", "\"" >>)
            \o localPath \o Lit(<< "\"", " ", "a", "l", "t", "=", "\"" >>)
            \o filename \o Lit(<< "\"", " ", "l", "o", "a", "d", "i", "n", "g", "=", "\"", "l", "a", "z", "y",
                   "\"", " ", "o", "n", "c", "l", "i", "c", "k", "=", "\"", "o", "p", "e", "n",
                   "L", "i", "g", "h", "t", "b", "o", "x", "(", "'" >>)
            \o localPath \o Lit(<< "'", ")", "\"", "/", ">", "\n", " ", " ", " ", " ", " ", " ", " ", " ", " ",
                   " ", " ", " ", " ", " ", " ", " ", " ", " ", " ", " ", "<", "/", "d", "i",
                   "v", ">" >>)
       ELSE IF att.kind = "video"
       THEN Lit(<< "<", "d", "i", "v", " ", "c", "l", "a", "s", "s", "=", "\"", "a", "t", "t",
                   "a", "c", "h", "m", "e", "n", "t", "\"", ">", "\n", " ", " ", " ", " ", " ",
                   " ", " ", " ", " ", " ", " ", " ", " ", " ", " ", " ", " ", " ", " ", " ",
                   " ", " ", " ", " ", "<", "a", " ", "h", "r", "e", "f", "=", "\"" >>)
            \o localPath \o Lit(<< "\"", " ", "t", "a", "r", "g", "e", "t", "=", "\"", "_", "b", "l", "a", "n",
                   "k", "\"", ">", Paperclip, " " >>)
            \o filename \o Lit(<< "<", "/", "a", ">", "<", "b", "r", "/", ">", "\n", " ", " ", " ", " ", " ",
                   " ", " ", " ", " ", " ", " ", " ", " ", " ", " ", " ", " ", " ", " ", " ",
                   " ", " ", " ", " ", "<", "v", "i", "d", "e", "o", " ", "c", "o", "n", "t",
                   "r", "o", "l", "s", " ", ">", "\n", " ", " ", " ", " ", " ", " ", " ", " ",
                   " ", " ", " ", " ", " ", " ", " ", " ", " ", " ", " ", " ", " ", " ", " ",
                   " ", " ", " ", " ", " ", "<", "s", "o", "u", "r", "c", "e", " ", "s", "r",
                   "c", "=", "\"" >>)
            \o localPath \o Lit(<< "\"", " ", "t", "y", "p", "e", "=", "\"", "v", "i", "d", "e", "o", "/", "m",
                   "p", "4", "\"", ">", "\n", " ", " ", " ", " ", " ", " ", " ", " ", " ", " ",
                   " ", " ", " ", " ", " ", " ", " ", " ", " ", " ", " ", " ", " ", " ", " ",
                   " ", " ", " ", "Y", "o", "u", "r", " ", "b", "r", "o", "w", "s", "e", "r",
                   " ", "d", "o", "e", "s", " ", "n", "o", "t", " ", "s", "u", "p", "p", "o",
                   "r", "t", " ", "t", "h", "e", " ", "v", "i", "d", "e", "o", " ", "t", "a",
                   "g", ".", "\n", " ", " ", " ", " ", " ", " ", " ", " ", " ", " ", " ", " ",
                   " ", " ", " ", " ", " ", " ", " ", " ", " ", " ", " ", " ", "<", "/", "v",
                   "i", "d", "e", "o", ">", "\n", " ", " ", " ", " ", " ", " ", " ", " ", " ",
                   " ", " ", " ", " ", " ", " ", " ", " ", " ", " ", " ", "<", "/", "d", "i",
                   "v", ">" >>)
       ELSE Lit(<< "<", "d", "i", "v", " ", "c", "l", "a", "s", "s", "=", "\"", "a", "t", "t",
                   "a", "c", "h", "m", "e", "n", "t", "\"", ">", "\n", " ", " ", " ", " ", " ",
                   " ", " ", " ", " ", " ", " ", " ", " ", " ", " ", " ", " ", " ", " ", " ",
                   " ", " ", " ", " ", "<", "a", " ", "h", "r", "e", "f", "=", "\"" >>)
            \o localPath \o Lit(<< "\"", " ", "t", "a", "r", "g", "e", "t", "=", "\"", "_", "b", "l", "a", "n",
                   "k", "\"", ">", Paperclip, " " >>)
            \o filename \o Lit(<< "<", "/", "a", ">", "\n", " ", " ", " ", " ", " ", " ", " ", " ", " ", " ",
                   " ", " ", " ", " ", " ", " ", " ", " ", " ", " ", " ", " ", " ", " ", "<",
                   "s", "p", "a", "n", " ", "s", "t", "y", "l", "e", "=", "\"", "c", "o", "l",
                   "o", "r", ":", " ", "#", "7", "2", "7", "6", "7", "d", ";", " ", "f", "o",
                   "n", "t", "-", "s", "i", "z", "e", ":", " ", "0", ".", "8", "e", "m", ";",
                   "\"", ">", " ", "(" >>)
            \o Lit(att.kilobytes) \o Lit(<< " ", "K", "B", ")", "<", "/", "s", "p", "a", "n", ">", "\n", " ", " ", " ",
                   " ", " ", " ", " ", " ", " ", " ", " ", " ", " ", " ", " ", " ", " ", " ",
                   " ", " ", "<", "/", "d", "i", "v", ">" >>)

HtmlReaction(reaction) ==
    Lit(<< "<", "s", "p", "a", "n", " ", "c", "l", "a", "s", "s", "=", "\"", "r", "e", "a", "c",
           "t", "i", "o", "n", "\"", ">" >>)
    \o User(reaction.emoji) \o Lit(<< " " >>) \o Lit(reaction.count)
    \o Lit(<< "<", "/", "s", "p", "a", "n", ">" >>)

\* the block of one message; bundled tells formatAsHTMLWithAttachments from
\* formatAsHTML
HtmlMessageBlock(message, bundled) ==
    Lit(<< "\n", "<", "d", "i", "v", " ", "c", "l", "a", "s", "s", "=", "\"" >>)
    \o Lit(IF message.attachments # <<>>
           THEN << "m", "e", "s", "s", "a", "g", "e", " ", "h", "a", "s", "-", "a", "t", "t",
                  "a", "c", "h", "m", "e", "n", "t" >>
           ELSE << "m", "e", "s", "s", "a", "g", "e" >>)
    \o Lit(<< "\"", ">" >>)
    \o (IF message.reply.has
        THEN Lit(<< "\n", " ", " ", " ", " ", "<", "d", "i", "v", " ", "c", "l", "a", "s", "s",
                    "=", "\"", "r", "e", "p", "l", "y", "\"", ">", "\n", " ", " ", " ", " ",
                    " ", " ", " ", " ", ReplyArrow, " ", "R", "e", "p", "l", "y", "i", "n", "g",
                    " ", "t", "o", ":", " " >>)
             \o HtmlReplyPreview(message.reply.content)
             \o Lit(<< "\n", " ", " ", " ", " ", "<", "/", "d", "i", "v", ">" >>)
        ELSE <<>>)
    \o Lit(<< "\n", " ", " ", " ", " ", "<", "d", "i", "v", " ", "c", "l", "a", "s", "s", "=",
           "\"", "a", "u", "t", "h", "o", "r", "\"", ">" >>)
    \o User(HtmlAuthor(message))
    \o Lit(<< " ", "<", "s", "p", "a", "n", " ", "c", "l", "a", "s", "s", "=", "\"", "t", "i", "m",
           "e", "s", "t", "a", "m", "p", "\"", ">" >>)
    \o Lit(message.timestamp)
    \o Lit(<< "<", "/", "s", "p", "a", "n", ">", "<", "/", "d", "i", "v", ">", "\n", " ", " ", " ",
           " ", "<", "d", "i", "v", " ", "c", "l", "a", "s", "s", "=", "\"", "c", "o", "n", "t",
           "e", "n", "t", "\"", ">" >>)
    \o parseMarkdown(message.content)
    \o Lit(<< "<", "/", "d", "i", "v", ">", "\n" >>)
    \o (IF message.attachments # <<>>
        THEN Lit(<< "<", "d", "i", "v", " ", "c", "l", "a", "s", "s", "=", "\"", "a", "t", "t",
                    "a", "c", "h", "m", "e", "n", "t", "s", "\"", ">" >>)
             \o Join([k \in 1..Len(message.attachments) |->
                        IF bundled
                        THEN HtmlLocalAttachment(message.attachments[k])
                        ELSE HtmlAttachment(message.attachments[k])],
                     <<>>)
             \o Lit(<< "<", "/", "d", "i", "v", ">" >>)
        ELSE <<>>)
    \o (IF message.reactions # <<>>
        THEN Lit(<< "<", "d", "i", "v", " ", "c", "l", "a", "s", "s", "=", "\"", "r", "e", "a",
                    "c", "t", "i", "o", "n", "s", "\"", ">" >>)
             \o Join([k \in 1..Len(message.reactions) |-> HtmlReaction(message.reactions[k])],
                     <<>>)
             \o Lit(<< "<", "/", "d", "i", "v", ">" >>)
        ELSE <<>>)
    \o Lit(<< "<", "/", "d", "i", "v", ">" >>)

\* the loop over the messages; currentChannel is the name of the channel
\* whose heading was written last (none at the start)
RECURSIVE HtmlMessages(_, _, _)
HtmlMessages(messages, currentChannel, bundled) ==
    IF messages = <<>>
    THEN IF currentChannel # <<>> THEN Lit(<< "<", "/", "d", "i", "v", ">" >>) ELSE <<>>
    ELSE LET message == Head(messages)
         IN (IF message.channel.name # currentChannel
             THEN HtmlChannelHeading(message.channel, currentChannel # <<>>)
             ELSE <<>>)
            \o HtmlMessageBlock(message, bundled)
            \o HtmlMessages(Tail(messages), message.channel.name, bundled)

\* formatAsHTML from the message loop on
formatAsHTML(messages) ==
    HtmlMessages(messages, <<>>, FALSE) \o Lit(<< "<", "/", "b", "o", "d", "y", ">", "<", "/", "h", "t", "m", "l", ">" >>)

\* formatAsHTMLWithAttachments from the message loop on
formatAsHTMLWithAttachments(messages) ==
    HtmlMessages(messages, <<>>, TRUE) \o Lit(<< "<", "/", "b", "o", "d", "y", ">", "<", "/", "h", "t", "m", "l", ">" >>)

\* ------------------------------------------------------------------ state
VARIABLES
    options,          \* the ExportOptions of the run
    channelsToExport, \* the channel ids getChannelsToExport resolved
    pc,               \* where the job is suspended
    i,                \* performExport: position in channelsToExport
    allMessages,      \* performExport: the accumulated messages
    fetch,            \* fetchChannelMessages: messages, seenMessageIds, lastMessageId, fetchedCount
    rateLimiter,      \* the RateLimiter of the channel: retryCount, retryAfter
    callResult,       \* how the last executeWithRetry call ended
    status,           \* the status line of the last setProgress
    finalMessages,    \* performExport: the messages after the final cap
    handed,           \* the formatter that ran and the sequence handed to it
    call,             \* history: invocations, 429 answers, onRetry calls, sleeps of the current call
    answer,           \* history: the last answer of the API
    arrival,          \* history: the distinct record ids of the channel, in order of arrival
    pagesGot,         \* history: non-empty pages delivered for the channel
    served,           \* history: the last record id the API delivered for the channel, and
                      \* whether a call of the channel succeeded right under the retry ceiling
    returned,         \* history: what fetchChannelMessages returned, per channel position
    downloadQueue,    \* downloadWithAttachments: the attachments not yet started
    activeDownloads,  \* downloadWithAttachments: the downloads in flight
    filenameCount,    \* downloadWithAttachments: uses of each original filename
    zipFiles,         \* the entries of the archive: path -> content
    downloadedCount,  \* downloadWithAttachments: successes
    failedCount,      \* downloadWithAttachments: failures
    started,          \* history: the attachments the scheduler started, in order
    last429,          \* history: the attachment and the attempt the host last answered with 429
    text,             \* the content a formatter function is applied to, as characters
    out               \* the formatter function applied, its input and its result

dlvars == << downloadQueue, activeDownloads, filenameCount, zipFiles, downloadedCount,
             failedCount, started, last429 >>

fmtvars == << text, out >>

vars == << options, channelsToExport, pc, i, allMessages, fetch, rateLimiter, callResult,
           status, finalMessages, handed, call, answer, arrival, pagesGot, served, returned,
           downloadQueue, activeDownloads, filenameCount, zipFiles, downloadedCount,
           failedCount, started, last429, text, out >>

\* retryAfter is kept relative to the clock: due is the time left until it (0
\* once it is reached); isSet tells it from the cleared value 0
Cleared == [isSet |-> FALSE, due |-> 0]
FreshLimiter == [retryCount |-> 0, retryAfter |-> Cleared]
FreshFetch == [messages |-> <<>>, seenMessageIds |-> {}, lastMessageId |-> 0, fetchedCount |-> 0]
\* invocations, 429 answers, onRetry calls and sleeps of the call; the cursor
\* of the request last issued (0: none); of the last 429 answer the delay
\* computed, and since then the onRetry calls, the delay reported and the
\* time slept
FreshCall ==
    [invocations |-> 0, rateLimited |-> 0, onRetry |-> 0, sleeps |-> 0, cursor |-> 0,
     delay |-> 0, reports |-> 0, reported |-> 0, waited |-> 0]
No429 == [id |-> 0, attempt |-> 0]
NothingServed == [lastId |-> 0, nearCeiling |-> FALSE]
Pending == [kind |-> "pending", status |-> 0, body |-> <<>>]
NoAnswer == [kind |-> "none", status |-> 0, header |-> ""]
NotHanded == [formatter |-> "none", messages |-> <<>>]
NoOut == [fn |-> "none", input |-> <<>>, value |-> <<>>]

Min(a, b) == IF a < b THEN a ELSE b

\* parseInt of the header values of the model
ParseInt(h) == CASE h = "0" -> 0 [] h = "1" -> 1 [] h = "2" -> 2 [] OTHER -> NaN

\* Math.round(ms / 1000) of a delay
RoundSeconds(ms) == IF ms = NaN THEN NaN ELSE (ms + 500) \div 1000

\* a backoff without the ceiling maxDelay
DelayUncapped(header, retryCount, jitter) ==
    IF header # ""
    THEN IF ParseInt(header) = NaN THEN NaN ELSE ParseInt(header) * 1000
    ELSE baseDelay * 2 ^ (retryCount - 1) + jitter

\* the delay after the retryCount-th consecutive 429: the header's seconds, or
\* exponential backoff with jitter
Delay(header, retryCount, jitter) ==
    IF header # ""
    THEN IF ParseInt(header) = NaN THEN NaN ELSE ParseInt(header) * 1000
    ELSE Min(baseDelay * 2 ^ (retryCount - 1) + jitter, maxDelay)

\* a test that also waits for a time that is reached already
InFutureOrNow(retryAfter) == retryAfter.isSet /\ retryAfter.due >= 0

\* this.retryAfter > Date.now()
InFuture(retryAfter) == retryAfter.isSet /\ retryAfter.due > 0

TypeOK ==
    /\ options \in ExportOptions
    /\ channelsToExport \in ChannelLists
    /\ pc \in { "idle", "rl_sleep", "rl_await", "fetch_resume", "courtesy",
                "load_zip", "dl_wait", "zip_gen", "done", "failed" }
    /\ i \in 0..3
    /\ rateLimiter.retryCount \in 0..maxRetries
    /\ pagesGot \in 0..MaxPages

Init ==
    /\ options \in ExportOptions
    /\ channelsToExport \in ChannelLists
    /\ pc = "idle"
    /\ i = 0
    /\ allMessages = <<>>
    /\ fetch = FreshFetch
    /\ rateLimiter = FreshLimiter
    /\ callResult = Pending
    /\ status = << "Initializing...", 0 >>
    /\ finalMessages = <<>>
    /\ handed = NotHanded
    /\ call = FreshCall
    /\ answer = NoAnswer
    /\ arrival = <<>>
    /\ pagesGot = 0
    /\ served = NothingServed
    /\ returned = <<>>
    /\ downloadQueue = <<>>
    /\ activeDownloads = {}
    /\ filenameCount = << >>
    /\ zipFiles = << >>
    /\ downloadedCount = 0
    /\ failedCount = 0
    /\ started = <<>>
    /\ last429 = No429
    /\ text = <<>>
    /\ out = NoOut

\* ------------------------------------------------- RateLimiter.executeWithRetry
\* The head of the while loop with limiter state rl: past the ceiling the call
\* throws "Max retries exceeded"; with a pending wait it reports the wait through
\* onRetry and sleeps; otherwise it invokes the operation, whose request
\* carries the cursor lastMessageId when that is set.
LoopTop(rl, c, st, lastMessageId) ==
    /\ rateLimiter' = rl
    /\ IF rl.retryCount >= maxRetries
       THEN /\ pc' = "fetch_resume"
            /\ callResult' = [kind |-> "max_retries", status |-> 0, body |-> <<>>]
            /\ call' = c
            /\ status' = st
       ELSE IF InFuture(rl.retryAfter)
       THEN /\ pc' = "rl_sleep"
            /\ callResult' = Pending
            /\ call' = [c EXCEPT !.onRetry = @ + 1, !.reports = @ + 1,
                                  !.reported = rl.retryAfter.due]
            /\ status' = << "RATE_LIMIT_RETRY", RoundSeconds(rl.retryAfter.due) >>
       ELSE /\ pc' = "rl_await"
            /\ callResult' = Pending
            /\ call' = [c EXCEPT !.invocations = @ + 1, !.cursor = lastMessageId]
            /\ status' = st

\* the sleep of the wait ends: the operation is invoked
SleepDone ==
    /\ pc = "rl_sleep"
    /\ pc' = "rl_await"
    /\ rateLimiter' = [rateLimiter EXCEPT !.retryAfter = [isSet |-> TRUE, due |-> 0]]
    /\ call' = [call EXCEPT !.sleeps = @ + 1, !.invocations = @ + 1,
                            !.waited = rateLimiter.retryAfter.due,
                            !.cursor = fetch.lastMessageId]
    /\ UNCHANGED << options, channelsToExport, i, allMessages, fetch, callResult, status,
                    finalMessages, handed, answer, arrival, pagesGot, served, returned >>
    /\ UNCHANGED dlvars
    /\ UNCHANGED fmtvars

\* a limiter that keeps its state over a success
KeptOnSuccess(rl) == rl

\* this.retryCount = 0; this.retryAfter = 0
ResetOnSuccess(rl) == [retryCount |-> 0, retryAfter |-> Cleared]

\* the operation succeeds with a page: the limiter is reset and the call returns
ApiPage(page) ==
    /\ pc = "rl_await"
    /\ page # <<>> => pagesGot < MaxPages
    /\ pc' = "fetch_resume"
    /\ rateLimiter' = ResetOnSuccess(rateLimiter)
    /\ callResult' = [kind |-> "page", status |-> 200, body |-> page]
    /\ answer' = [kind |-> "page", status |-> 200, header |-> ""]
    /\ pagesGot' = IF page = <<>> THEN pagesGot ELSE pagesGot + 1
    /\ served' = [lastId |-> IF page = <<>> THEN served.lastId ELSE page[Len(page)].id,
                  nearCeiling |-> served.nearCeiling \/ call.rateLimited = maxRetries - 1]
    /\ UNCHANGED << options, channelsToExport, i, allMessages, fetch, status,
                    finalMessages, handed, call, arrival, returned >>
    /\ UNCHANGED dlvars
    /\ UNCHANGED fmtvars

\* a ceiling test that is off by one: the tenth 429 goes round the loop again
Api429LateCeiling(header, jitter) ==
    /\ pc = "rl_await"
    /\ answer' = [kind |-> "error", status |-> 429, header |-> header]
    /\ LET rc == rateLimiter.retryCount + 1
           rl == [retryCount |-> rc,
                  retryAfter |-> [isSet |-> TRUE, due |-> Delay(header, rc, jitter)]]
           c == [call EXCEPT !.rateLimited = @ + 1, !.delay = Delay(header, rc, jitter),
                             !.reports = 0, !.reported = 0, !.waited = 0]
       IN IF rc > maxRetries
          THEN /\ rateLimiter' = rl
               /\ pc' = "fetch_resume"
               /\ callResult' = [kind |-> "rate_limited", status |-> 0, body |-> <<>>]
               /\ call' = c
               /\ status' = status
          ELSE LoopTop(rl, c, status, fetch.lastMessageId)
    /\ UNCHANGED << options, channelsToExport, i, allMessages, fetch,
                    finalMessages, handed, arrival, pagesGot, served, returned >>
    /\ UNCHANGED dlvars
    /\ UNCHANGED fmtvars

\* the operation fails with status 429
Api429(header, jitter) ==
    /\ pc = "rl_await"
    /\ answer' = [kind |-> "error", status |-> 429, header |-> header]
    /\ LET rc == rateLimiter.retryCount + 1
           rl == [retryCount |-> rc,
                  retryAfter |-> [isSet |-> TRUE, due |-> Delay(header, rc, jitter)]]
           c == [call EXCEPT !.rateLimited = @ + 1, !.delay = Delay(header, rc, jitter),
                             !.reports = 0, !.reported = 0, !.waited = 0]
       IN IF rc >= maxRetries
          THEN /\ rateLimiter' = rl
               /\ pc' = "fetch_resume"
               /\ callResult' = [kind |-> "rate_limited", status |-> 0, body |-> <<>>]
               /\ call' = c
               /\ status' = status
          ELSE LoopTop(rl, c, status, fetch.lastMessageId)
    /\ UNCHANGED << options, channelsToExport, i, allMessages, fetch,
                    finalMessages, handed, arrival, pagesGot, served, returned >>
    /\ UNCHANGED dlvars
    /\ UNCHANGED fmtvars

\* a limiter that also retries server errors (5xx)
ApiErrorRetried(st) ==
    /\ pc = "rl_await"
    /\ answer' = [kind |-> "error", status |-> st, header |-> ""]
    /\ IF st >= 500 /\ rateLimiter.retryCount + 1 < maxRetries
       THEN LoopTop([rateLimiter EXCEPT !.retryCount = @ + 1], call, status, fetch.lastMessageId)
       ELSE /\ pc' = "fetch_resume"
            /\ callResult' = [kind |-> "error", status |-> st, body |-> <<>>]
            /\ UNCHANGED << rateLimiter, status, call >>
    /\ UNCHANGED << options, channelsToExport, i, allMessages, fetch,
                    finalMessages, handed, arrival, pagesGot, served, returned >>
    /\ UNCHANGED dlvars
    /\ UNCHANGED fmtvars

\* the operation fails with another error: it is thrown as it is
ApiError(st) ==
    /\ pc = "rl_await"
    /\ pc' = "fetch_resume"
    /\ answer' = [kind |-> "error", status |-> st, header |-> ""]
    /\ callResult' = [kind |-> "error", status |-> st, body |-> <<>>]
    /\ UNCHANGED << options, channelsToExport, i, allMessages, fetch, rateLimiter, status,
                    finalMessages, handed, call, arrival, pagesGot, served, returned >>
    /\ UNCHANGED dlvars
    /\ UNCHANGED fmtvars


\* ------------------------------------------------------------ performExport
\* the ids of a page appended to the arrival order, each id once
RECURSIVE AppendNew(_, _)
AppendNew(arr, page) ==
    IF page = <<>> THEN arr
    ELSE AppendNew(IF Head(page).id \in Range(arr) THEN arr ELSE Append(arr, Head(page).id),
                   Tail(page))

\* an export without the final cap
FinalLimitKeepsAll(all, opts) == all

\* the final cap of performExport
FinalLimit(all, opts) ==
    IF opts.messageLimit > 0 /\ Len(all) > opts.messageLimit
    THEN Slice(all, opts.messageLimit)
    ELSE all

\* a retrieval that goes on with the limiter of the retrieval before it
StartChannelSharedLimiter(k, all) ==
    /\ i' = k
    /\ allMessages' = all
    /\ fetch' = FreshFetch
    /\ arrival' = <<>>
    /\ pagesGot' = 0
    /\ served' = NothingServed
    /\ LoopTop(rateLimiter, FreshCall, << "Fetching messages from", k >>, 0)
    /\ UNCHANGED << finalMessages, handed >>

\* a loop that does not await the retrievals: every channel is started at
\* once, and the requests followed are those of the last
StartChannelNotAwaited(k, all) ==
    /\ i' = Len(channelsToExport)
    /\ allMessages' = all
    /\ fetch' = FreshFetch
    /\ arrival' = <<>>
    /\ pagesGot' = 0
    /\ served' = NothingServed
    /\ LoopTop(FreshLimiter, FreshCall, << "Fetching messages from", k >>, 0)
    /\ UNCHANGED << finalMessages, handed >>

\* the loop body of performExport for the channel at position k: a fresh
\* fetchChannelMessages with its own RateLimiter issues the first page request
StartChannel(k, all) ==
    /\ i' = k
    /\ allMessages' = all
    /\ fetch' = FreshFetch
    /\ arrival' = <<>>
    /\ pagesGot' = 0
    /\ served' = NothingServed
    /\ LoopTop(FreshLimiter, FreshCall, << "Fetching messages from", k >>, 0)
    /\ UNCHANGED << finalMessages, handed >>

\* performExport after the loop: the final cap, then either the attachment
\* bundle or formatExportData and downloadExport
AfterLoop(all, f, arr) ==
    /\ i' = Len(channelsToExport) + 1
    /\ allMessages' = all
    /\ finalMessages' = FinalLimit(all, options)
    /\ fetch' = f
    /\ arrival' = arr
    /\ call' = FreshCall
    /\ callResult' = Pending
    /\ UNCHANGED << rateLimiter, pagesGot, served >>
    /\ IF options.includeAttachments
       THEN /\ pc' = "load_zip"
            /\ status' = << "Downloading attachments...", 0 >>
            /\ handed' = handed
       ELSE /\ pc' = "done"
            /\ status' = << "Export completed successfully!", 0 >>
            /\ handed' = formatExportData(FinalLimit(all, options), options)

performExport ==
    /\ pc = "idle"
    /\ IF channelsToExport = <<>>
       THEN AfterLoop(<<>>, fetch, arrival)
       ELSE StartChannel(1, <<>>)
    /\ UNCHANGED << options, channelsToExport, answer, returned >>
    /\ UNCHANGED dlvars
    /\ UNCHANGED fmtvars

\* a failed channel that ends the loop over the channels
ReturnAborting(ret, how, f, arr) ==
    /\ returned' = Append(returned, [how |-> how, messages |-> ret, arrival |-> arr])
    /\ IF i < Len(channelsToExport) /\ how \in { "empty", "cap" }
       THEN StartChannel(i + 1, allMessages \o ret)
       ELSE AfterLoop(allMessages \o ret, f, arr)

\* fetchChannelMessages returns ret to performExport, which pushes it and goes
\* on with the next channel
Return(ret, how, f, arr) ==
    /\ returned' = Append(returned, [how |-> how, messages |-> ret, arrival |-> arr])
    /\ IF i < Len(channelsToExport)
       THEN StartChannel(i + 1, allMessages \o ret)
       ELSE AfterLoop(allMessages \o ret, f, arr)

\* fetchChannelMessages resumes after executeWithRetry: it processes the page,
\* or catches the error and breaks.  The status RATE_LIMIT_ERROR that the catch
\* sets is replaced, before the job suspends again, by the status performExport
\* sets when the retrieval returns (StartChannel, AfterLoop).
fetchChannelMessages ==
    /\ pc = "fetch_resume"
    /\ IF callResult.kind = "page"
       THEN IF callResult.body = <<>>
            THEN Return(Reverse(fetch.messages), "empty", fetch, arrival)
            ELSE LET r == ProcessRecords(callResult.body, fetch.messages, fetch.seenMessageIds,
                                         fetch.fetchedCount, options)
                     f == [messages |-> r.messages,
                           seenMessageIds |-> r.seenMessageIds,
                           lastMessageId |-> LastId(callResult.body),
                           fetchedCount |-> r.fetchedCount]
                     arr == AppendNew(arrival, callResult.body)
                 IN IF r.limitHit
                    THEN Return(Slice(r.messages, options.messageLimit), "cap",
                                [f EXCEPT !.lastMessageId = fetch.lastMessageId], arr)
                    ELSE /\ fetch' = f
                         /\ arrival' = arr
                         /\ status' = << "FETCHING_MESSAGES", r.fetchedCount >>
                         /\ pc' = "courtesy"
                         /\ call' = FreshCall
                         /\ callResult' = Pending
                         /\ UNCHANGED << i, allMessages, rateLimiter, finalMessages,
                                         handed, pagesGot, served, returned >>
       ELSE Return(Reverse(fetch.messages), callResult.kind, fetch, arrival)
    /\ answer' = NoAnswer
    /\ UNCHANGED << options, channelsToExport >>
    /\ UNCHANGED dlvars
    /\ UNCHANGED fmtvars

\* the courtesy delay ends: the next page request goes through executeWithRetry
CourtesyDone ==
    /\ pc = "courtesy"
    /\ LoopTop(rateLimiter, FreshCall, status, fetch.lastMessageId)
    /\ UNCHANGED << options, channelsToExport, i, allMessages, fetch, finalMessages, handed,
                    answer, arrival, pagesGot, served, returned >>
    /\ UNCHANGED dlvars
    /\ UNCHANGED fmtvars

\* -------------------------------------------------- downloadWithAttachments
CONCURRENT_DOWNLOADS == 5
maxDownloadRetries == 3

\* messages.flatMap(msg => msg.attachments)
RECURSIVE FlatAttachments(_)
FlatAttachments(msgs) ==
    IF msgs = <<>> THEN <<>> ELSE Head(msgs).attachments \o FlatAttachments(Tail(msgs))

OriginalName(att) == att.stem \o att.ext

CountOf(fcount, name) == IF name \in DOMAIN fcount THEN fcount[name] ELSE 0

\* a collision handling that ignores the count
CollisionNameSame(att, fcount) == OriginalName(att)

\* downloadAttachment, the filename collision handling: the name under which
\* this call stores the attachment (ext is "" when the name has no dot past
\* its first character)
CollisionName(att, fcount) ==
    LET count == CountOf(fcount, OriginalName(att))
    IN IF count > 0
       THEN att.stem \o "_" \o ToString(count) \o att.ext
       ELSE OriginalName(att)

BumpCount(att, fcount) ==
    [n \in DOMAIN fcount \cup {OriginalName(att)} |->
        IF n = OriginalName(att) THEN CountOf(fcount, n) + 1 ELSE fcount[n]]

\* a wait without the default of one second for an absent header
RetryAfterMsNoDefault(header) ==
    IF ParseInt(header) = NaN THEN NaN ELSE ParseInt(header) * 1000

\* parseInt(response.headers.get("retry-after") || "1") * 1000
RetryAfterMs(header) ==
    LET seconds == ParseInt(IF header = "" THEN "1" ELSE header)
    IN IF seconds = NaN THEN NaN ELSE seconds * 1000

\* the time a timer set to ms runs: setTimeout takes NaN for 0
TimerMs(ms) == IF ms = NaN THEN 0 ELSE ms

\* one call of downloadAttachment up to its fetch; hint is the retry-after
\* header of the 429 answer before this call and waited the time the call
\* before slept on it (history)
Download(att, fcount, retry) ==
    [attachment |-> att, filename |-> CollisionName(att, fcount), retryCount |-> retry,
     stage |-> "fetch", hint |-> "", waited |-> 0]

\* a window test that admits one download too many
RECURSIVE StartDownloadsOneMore(_, _, _, _)
StartDownloadsOneMore(queue, active, fcount, begun) ==
    IF Cardinality(active) <= CONCURRENT_DOWNLOADS /\ queue # <<>>
    THEN StartDownloadsOneMore(Tail(queue),
                               active \cup { Download(Head(queue), fcount, 0) },
                               BumpCount(Head(queue), fcount),
                               Append(begun, Head(queue).id))
    ELSE [queue |-> queue, active |-> active, filenameCount |-> fcount, started |-> begun]

\* a scheduler that admits one download a round
StartDownloadsOneARound(queue, active, fcount, begun) ==
    IF Cardinality(active) < CONCURRENT_DOWNLOADS /\ queue # <<>>
    THEN [queue |-> Tail(queue),
          active |-> active \cup { Download(Head(queue), fcount, 0) },
          filenameCount |-> BumpCount(Head(queue), fcount),
          started |-> Append(begun, Head(queue).id)]
    ELSE [queue |-> queue, active |-> active, filenameCount |-> fcount, started |-> begun]

\* the inner while loop: start queued downloads while fewer than
\* CONCURRENT_DOWNLOADS are active (begun: the attachments started so far)
RECURSIVE StartDownloads(_, _, _, _)
StartDownloads(queue, active, fcount, begun) ==
    IF Cardinality(active) < CONCURRENT_DOWNLOADS /\ queue # <<>>
    THEN StartDownloads(Tail(queue),
                        active \cup { Download(Head(queue), fcount, 0) },
                        BumpCount(Head(queue), fcount),
                        Append(begun, Head(queue).id))
    ELSE [queue |-> queue, active |-> active, filenameCount |-> fcount, started |-> begun]

Put(files, path, content) ==
    [n \in DOMAIN files \cup {path} |-> IF n = path THEN content ELSE files[n]]

\* formatAsHTMLWithAttachments: the path it writes into href and src for an
\* attachment, attachments/ followed by att.filename
LocalPath(att) == "attachments/" \o OriginalName(att)

\* the document of a bundled export: HTML goes to formatAsHTMLWithAttachments
\* with the messages as they are, the other formats through formatExportData
BundleDocument(msgs, opts) ==
    IF opts.format = "html"
    THEN [formatter |-> "formatAsHTMLWithAttachments", messages |-> msgs]
    ELSE formatExportData(msgs, opts)

\* the outer while loop after the active set changed: refill the window and
\* wait, or, with nothing queued and nothing active, write the document into
\* the archive and generate it
Schedule(queue, active, fcount, files, st) ==
    LET r == StartDownloads(queue, active, fcount, started)
    IN /\ downloadQueue' = r.queue
       /\ started' = r.started
       /\ activeDownloads' = r.active
       /\ filenameCount' = r.filenameCount
       /\ IF r.queue = <<>> /\ r.active = {}
          THEN /\ pc' = "zip_gen"
               /\ handed' = BundleDocument(finalMessages, options)
               /\ zipFiles' = Put(files, "export." \o options.format, "document")
               /\ status' = << "Creating export file...", 0 >>
          ELSE /\ pc' = "dl_wait"
               /\ handed' = handed
               /\ zipFiles' = files
               /\ status' = st

rest == << options, channelsToExport, i, allMessages, fetch, rateLimiter, callResult,
           finalMessages, call, answer, arrival, pagesGot, served, returned, text, out >>

\* loadJSZip succeeds: the queue is built and the first downloads start
LoadZipOk ==
    /\ pc = "load_zip"
    /\ downloadedCount' = 0
    /\ failedCount' = 0
    /\ Schedule(FlatAttachments(finalMessages), {}, << >>, << >>, status)
    /\ UNCHANGED last429
    /\ UNCHANGED rest

\* loadJSZip fails: downloadWithAttachments rethrows and the export fails
LoadZipFail ==
    /\ pc = "load_zip"
    /\ pc' = "failed"
    /\ status' = << "Export failed", 0 >>
    /\ UNCHANGED << handed, dlvars >>
    /\ UNCHANGED rest

\* a failed download that is thrown out of the scheduler and ends the export
SettleAborting(d, success, files) ==
    /\ downloadedCount' = IF success THEN downloadedCount + 1 ELSE downloadedCount
    /\ failedCount' = IF success THEN failedCount ELSE failedCount + 1
    /\ IF success
       THEN Schedule(downloadQueue, activeDownloads \ {d}, filenameCount, files,
                     << "DOWNLOADING_ATTACHMENTS", downloadedCount + 1 >>)
       ELSE /\ pc' = "failed"
            /\ status' = << "Export failed", 0 >>
            /\ activeDownloads' = activeDownloads \ {d}
            /\ zipFiles' = files
            /\ UNCHANGED << handed, downloadQueue, filenameCount, started >>
    /\ UNCHANGED rest

\* a failed download that goes uncounted
SettleUncounted(d, success, files) ==
    /\ downloadedCount' = IF success THEN downloadedCount + 1 ELSE downloadedCount
    /\ failedCount' = failedCount
    /\ Schedule(downloadQueue, activeDownloads \ {d}, filenameCount, files,
                IF success THEN << "DOWNLOADING_ATTACHMENTS", downloadedCount + 1 >> ELSE status)
    /\ UNCHANGED rest

\* a download settles with success or failure: the tallies, the removal from
\* the active set, and the scheduler's next round
Settle(d, success, files) ==
    /\ downloadedCount' = IF success THEN downloadedCount + 1 ELSE downloadedCount
    /\ failedCount' = IF success THEN failedCount ELSE failedCount + 1
    /\ Schedule(downloadQueue, activeDownloads \ {d}, filenameCount, files,
                IF success THEN << "DOWNLOADING_ATTACHMENTS", downloadedCount + 1 >> ELSE status)
    /\ UNCHANGED rest

Stored(d) == Put(zipFiles, "attachments/" \o d.filename, d.attachment.id)

\* the download stays active in another stage
Move(d, d2, fcount) ==
    /\ activeDownloads' = (activeDownloads \ {d}) \cup {d2}
    /\ filenameCount' = fcount
    /\ UNCHANGED << pc, status, handed, downloadQueue, zipFiles, downloadedCount, failedCount,
                    started >>
    /\ UNCHANGED rest

\* the direct fetch answers: ok stores the blob; 429 with retries left waits
\* for the seconds of the retry-after header; any other answer is a failure
DlFetchAnswer(d, code, header) ==
    /\ pc = "dl_wait"
    /\ d \in activeDownloads
    /\ d.stage = "fetch"
    /\ last429' = IF code = 429
                  THEN [id |-> d.attachment.id, attempt |-> d.retryCount + 1]
                  ELSE last429
    /\ IF code = 200
       THEN Settle(d, TRUE, Stored(d))
       ELSE IF code = 429 /\ d.retryCount < maxDownloadRetries
       THEN Move(d, [d EXCEPT !.stage = "retry_wait", !.hint = header], filenameCount)
       ELSE Settle(d, FALSE, zipFiles)

\* the wait before a retry ends: downloadAttachment is called again with
\* retryCount + 1, and runs its collision handling again
DlRetry(d) ==
    /\ pc = "dl_wait"
    /\ d \in activeDownloads
    /\ d.stage = "retry_wait"
    /\ Move(d, [Download(d.attachment, filenameCount, d.retryCount + 1)
                  EXCEPT !.hint = d.hint, !.waited = TimerMs(RetryAfterMs(d.hint))],
            BumpCount(d.attachment, filenameCount))
    /\ UNCHANGED last429

\* the direct fetch throws (a cross-origin failure): the no-cors fetch is tried
DlFetchThrows(d) ==
    /\ pc = "dl_wait"
    /\ d \in activeDownloads
    /\ d.stage = "fetch"
    /\ Move(d, [d EXCEPT !.stage = "no_cors"], filenameCount)
    /\ UNCHANGED last429

\* the no-cors fetch ends: images and videos go on to downloadViaElement, any
\* other attachment, and a no-cors fetch that throws, is a failure
DlNoCors(d, ok) ==
    /\ pc = "dl_wait"
    /\ d \in activeDownloads
    /\ d.stage = "no_cors"
    /\ IF ok /\ d.attachment.kind \in { "image", "video" }
       THEN Move(d, [d EXCEPT !.stage = "element"], filenameCount)
       ELSE Settle(d, FALSE, zipFiles)
    /\ UNCHANGED last429

\* a downloadViaElement that also yields a blob for a video that loads
DlElementAnyKind(d, loaded) ==
    /\ pc = "dl_wait"
    /\ d \in activeDownloads
    /\ d.stage = "element"
    /\ IF loaded
       THEN Settle(d, TRUE, Stored(d))
       ELSE Settle(d, FALSE, zipFiles)
    /\ UNCHANGED last429

\* downloadViaElement resolves: a blob for an image that loads, null for an
\* image that does not and for every video
DlElement(d, loaded) ==
    /\ pc = "dl_wait"
    /\ d \in activeDownloads
    /\ d.stage = "element"
    /\ IF loaded /\ d.attachment.kind = "image"
       THEN Settle(d, TRUE, Stored(d))
       ELSE Settle(d, FALSE, zipFiles)
    /\ UNCHANGED last429

\* zip.generateAsync resolves: the archive is saved and the export completes
ZipOk ==
    /\ pc = "zip_gen"
    /\ pc' = "done"
    /\ status' = << "Export completed successfully!", 0 >>
    /\ UNCHANGED << handed, dlvars >>
    /\ UNCHANGED rest

\* zip.generateAsync rejects: downloadWithAttachments rethrows
ZipFail ==
    /\ pc = "zip_gen"
    /\ pc' = "failed"
    /\ status' = << "Export failed", 0 >>
    /\ UNCHANGED << handed, dlvars >>
    /\ UNCHANGED rest

\* what the run handed to the browser as a file: the document of
\* downloadExport, the archive of downloadWithAttachments, or nothing
Saved ==
    IF pc = "done"
    THEN IF options.includeAttachments THEN "archive" ELSE "document"
    ELSE "none"

\* the download started first among the active ones
Oldest(d) == \A e \in activeDownloads : d.attachment.id <= e.attachment.id

DownloadStep ==
    \/ LoadZipOk
    \/ LoadZipFail
    \/ \E d \in activeDownloads, code \in { 200, 404 } : DlFetchAnswer(d, code, "")
    \/ \E d \in activeDownloads : Oldest(d) /\ DlFetchThrows(d)
    \/ \E d \in activeDownloads, ok \in BOOLEAN : DlNoCors(d, ok)
    \/ \E d \in activeDownloads, loaded \in BOOLEAN : DlElement(d, loaded)
    \/ ZipOk
    \/ ZipFail

\* the retries of the batch so far: every call of downloadAttachment bumps one
\* filename count, and every attachment started accounts for one call
RECURSIVE SumCounts(_, _)
SumCounts(fcount, names) ==
    IF names = {} THEN 0
    ELSE LET n == CHOOSE x \in names : TRUE
         IN fcount[n] + SumCounts(fcount, names \ {n})

RetriesSoFar ==
    SumCounts(filenameCount, DOMAIN filenameCount)
    - (Len(FlatAttachments(finalMessages)) - Len(downloadQueue))
    + Cardinality({ e \in activeDownloads : e.stage = "retry_wait" })

\* the rate-limited download: a 429 answer and the retry after its wait.  The
\* host rate-limits the oldest download, and grants MaxRetried retries a batch.
DownloadRetryStep ==
    \/ \E d \in activeDownloads :
          /\ Oldest(d)
          /\ d.retryCount < maxDownloadRetries => RetriesSoFar < MaxRetried
          /\ \E header \in DownloadHeaders : DlFetchAnswer(d, 429, header)
    \/ \E d \in activeDownloads : DlRetry(d)

\* the answers the API can give to the request in flight
ApiPages ==
    IF pc = "rl_await" THEN {<<>>} \cup Pages(channelsToExport[i]) ELSE {}

\* The export: every request is answered by any page of the channel or by a
\* failure that is not a rate limit.
Next ==
    \/ performExport
    \/ \E page \in ApiPages : ApiPage(page)
    \/ ApiError(500)
    \/ fetchChannelMessages
    \/ CourtesyDone
    \/ DownloadStep

Spec == Init /\ [][Next]_vars

\* the API answers the request in flight with a page, as often as it is asked:
\* the client has no hold on what the API returns, and the tally of the
\* non-empty pages stops at MaxPages
ApiPageAnyNumber(page) ==
    /\ pc = "rl_await"
    /\ pc' = "fetch_resume"
    /\ rateLimiter' = ResetOnSuccess(rateLimiter)
    /\ callResult' = [kind |-> "page", status |-> 200, body |-> page]
    /\ answer' = [kind |-> "page", status |-> 200, header |-> ""]
    /\ pagesGot' = IF page = <<>> THEN pagesGot ELSE Min(pagesGot + 1, MaxPages)
    /\ served' = [lastId |-> IF page = <<>> THEN served.lastId ELSE page[Len(page)].id,
                  nearCeiling |-> served.nearCeiling \/ call.rateLimited = maxRetries - 1]
    /\ UNCHANGED << options, channelsToExport, i, allMessages, fetch, status,
                    finalMessages, handed, call, arrival, returned >>
    /\ UNCHANGED dlvars
    /\ UNCHANGED fmtvars

NextRetrieval ==
    \/ performExport
    \/ \E page \in ApiPages : ApiPageAnyNumber(page)
    \/ ApiError(500)
    \/ fetchChannelMessages
    \/ CourtesyDone

\* The retrieval against an API that answers every request, with any page of
\* the channel or with a failure, and an event loop that runs every
\* continuation that is ready (the answer of a request, the end of the
\* courtesy delay).  The run is followed up to the end of the loop over the
\* channels.
SpecRetrieval == Init /\ [][NextRetrieval]_vars /\ WF_vars(NextRetrieval)

\* The rate limiter in detail: two channels, capped or not, whose API answers
\* with a few pages, with failures, and with 429 under every header and jitter
\* of the model.
InitRL ==
    /\ Init
    /\ options \in { Opt(cap, NoFilter, NoRange, FALSE, "json") : cap \in { 0, MaxCap } }
    /\ channelsToExport = <<1, 2>>

LimiterPages ==
    { <<>>,
      << RawById(1) >>,
      << RawById(5), RawById(1) >>,
      << RawById(2) >>,
      << RawById(4), RawById(2) >> }

NextRL ==
    \/ performExport
    \/ SleepDone
    \/ \E page \in ApiPages \cap LimiterPages : ApiPage(page)
    \/ \E header \in Headers, jitter \in Jitters : Api429(header, jitter)
    \/ \E st \in { 403, 500 } : ApiError(st)
    \/ fetchChannelMessages
    \/ CourtesyDone

SpecRL == InitRL /\ [][NextRL]_vars

\* The attachment scheduler in detail: downloadWithAttachments entered with a
\* batch of up to MaxAttachments attachments, one per message.
BatchAttachment(k) ==
    CASE k % 4 = 1 -> Att(k, "a", ".png", "image")
      [] k % 4 = 2 -> Att(k, "v", ".mp4", "video")
      [] k % 4 = 3 -> Att(k, "a", ".png", "image")
      [] OTHER -> Att(k, "notes", "", "other")

BatchMessages(n) ==
    [k \in 1..n |->
        [id |-> k, timestamp |-> k, author |-> "A", channel |-> 1,
         attachments |-> << BatchAttachment(k) >>]]

\* downloadWithAttachments is entered with the messages of one of the batches
InitBatch(batches) ==
    /\ options \in { Opt(0, NoFilter, NoRange, TRUE, "html") }
    /\ channelsToExport = <<1>>
    /\ pc = "load_zip"
    /\ i = 2
    /\ \E batch \in batches :
          /\ allMessages = batch
          /\ finalMessages = batch
    /\ fetch = FreshFetch
    /\ rateLimiter = FreshLimiter
    /\ callResult = Pending
    /\ status = << "Downloading attachments...", 0 >>
    /\ handed = NotHanded
    /\ call = FreshCall
    /\ answer = NoAnswer
    /\ arrival = <<>>
    /\ pagesGot = 0
    /\ served = NothingServed
    /\ returned = <<>>
    /\ downloadQueue = <<>>
    /\ activeDownloads = {}
    /\ filenameCount = << >>
    /\ zipFiles = << >>
    /\ downloadedCount = 0
    /\ failedCount = 0
    /\ started = <<>>
    /\ last429 = No429
    /\ text = <<>>
    /\ out = NoOut

InitDL == InitBatch({ BatchMessages(n) : n \in 0..MaxAttachments })

NextDL == DownloadStep \/ DownloadRetryStep

SpecDL == InitDL /\ [][NextDL]_vars

\* The scheduler under the condition that every download settles: an
\* attachment host that does not rate-limit, and an event loop that runs every
\* continuation that is ready (the answer of a fetch, the end of loadJSZip and
\* of generateAsync).
SpecSched == InitDL /\ [][DownloadStep]_vars /\ WF_vars(DownloadStep)

\* The filename collision handling in detail: batches of up to MaxNamed images,
\* one per message, whose original filenames are a.png or a_1.png in every
\* combination.
MaxNamed == 3

NamedMessages(stems) ==
    [k \in 1..Len(stems) |->
        [id |-> k, timestamp |-> k, author |-> "A", channel |-> 1,
         attachments |-> << Att(k, stems[k], ".png", "image") >>]]

NamedBatches ==
    { NamedMessages(stems) : stems \in UNION { [1..n -> { "a", "a_1" }] : n \in 0..MaxNamed } }

InitNames == InitBatch(NamedBatches)

SpecNames == InitNames /\ [][NextDL]_vars

\* The formatter functions on their own: parseMarkdown and formatAsCSV applied
\* to a text, every text of up to MaxTextLen characters of the alphabet and
\* the sample texts.
MaxTextLen == 3
\* messages of a CSV export of the model
MaxCsvRows == 2

Alphabet == { "<", ">", "&", "*", "\"", "\n", "a" }

BoundedTexts == UNION { [1..n -> Alphabet] : n \in 0..MaxTextLen }

SampleTexts ==
    { << "<", "s", "c", "r", "i", "p", "t", ">" >>,
      << "&", "a", "m", "p", ";" >>,
      << "&", "l", "t", ";" >>,
      << "a", "&", "a", "m", "p", ";", "a" >>,
      << "*", "*", "<", "b", ">", "*", "*" >>,
      << "*", "a", "*" >>,
      << "_", "a", "_" >>,
      << "_", "_", "a", "_", "_" >>,
      << "~", "~", "a", "~", "~" >>,
      << Backtick, "<", Backtick >>,
      << Backtick, Backtick, Backtick, "j", "s", "\n", "a", Backtick, Backtick, Backtick >>,
      << "|", "|", "a", "|", "|" >>,
      << ">", " ", "a", "\n", ">", " ", "b" >>,
      << "#", " ", "a" >>,
      << "#", "#", " ", "a" >>,
      << "#", "#", "#", " ", "a" >>,
      << "[", "a", "]", "(", "b", ")" >>,
      << "[", "a", "]", "(", "b", "|", "|", "c", "|", "|", ")" >>,
      << "<", ":", "e", ":", "1", ">" >>,
      << "<", "a", ":", "e", ":", "1", ">" >>,
      << "<", "@", "1", ">" >>,
      << "<", "@", "!", "1", ">" >>,
      << "<", "@", "&", "1", ">" >>,
      << "<", "#", "1", ">" >>,
      << "a", ",", "\"", "b", "\"", "\n", "c" >>,
      << "a", "\r", "\n", "b" >>,
      << "'" >> }

Texts == BoundedTexts \cup SampleTexts

\* channel names: a guild channel, and a group conversation that its members
\* named with quotes and a comma
ChannelNames == { << "g" >>, << "a", "\"", ",", "\"", "b" >> }

\* the k-th message of a CSV export: the first with attachments and a
\* reaction, the second a reply
CsvMessage(content, channel, k) ==
    [timestamp |-> << "t", ToString(k) >>,
     channel |-> channel,
     username |-> << "u" >>,
     discriminator |-> << "0" >>,
     content |-> content,
     attachments |-> IF k = 1 THEN << << "f" >>, << "g" >> >> ELSE <<>>,
     reactions |-> IF k = 1 THEN << [emoji |-> << "+" >>, count |-> << "2" >>] >> ELSE <<>>,
     reply |-> [has |-> k = 2, content |-> content]]

exportvars == << options, channelsToExport, pc, i, allMessages, fetch, rateLimiter, callResult,
                 status, finalMessages, handed, call, answer, arrival, pagesGot, served, returned,
                 downloadQueue, activeDownloads, filenameCount, zipFiles, downloadedCount,
                 failedCount, started, last429 >>

InitFmt ==
    /\ options = Opt(0, NoFilter, NoRange, FALSE, "html")
    /\ channelsToExport = <<>>
    /\ pc = "idle"
    /\ i = 0
    /\ allMessages = <<>>
    /\ fetch = FreshFetch
    /\ rateLimiter = FreshLimiter
    /\ callResult = Pending
    /\ status = << "Initializing...", 0 >>
    /\ finalMessages = <<>>
    /\ handed = NotHanded
    /\ call = FreshCall
    /\ answer = NoAnswer
    /\ arrival = <<>>
    /\ pagesGot = 0
    /\ served = NothingServed
    /\ returned = <<>>
    /\ downloadQueue = <<>>
    /\ activeDownloads = {}
    /\ filenameCount = << >>
    /\ zipFiles = << >>
    /\ downloadedCount = 0
    /\ failedCount = 0
    /\ started = <<>>
    /\ last429 = No429
    /\ text \in Texts
    /\ out = NoOut

\* parseContent of formatAsHTML: parseMarkdown applied to the content
parseMarkdownStep ==
    /\ out.fn = "none"
    /\ out' = [fn |-> "parseMarkdown", input |-> <<>>, value |-> parseMarkdown(text)]
    /\ UNCHANGED text
    /\ UNCHANGED exportvars

\* formatAsCSV applied to up to MaxCsvRows messages with the text as content
formatAsCSVStep ==
    /\ out.fn = "none"
    /\ \E channel \in ChannelNames, n \in 0..MaxCsvRows :
          LET messages == [k \in 1..n |-> CsvMessage(text, channel, k)]
          IN out' = [fn |-> "formatAsCSV", input |-> messages, value |-> formatAsCSV(messages)]
    /\ UNCHANGED text
    /\ UNCHANGED exportvars

\* the fields of a message that hold text a user chose
HtmlFields == { "author", "channel", "reply", "filename" }

\* a message of an HTML export whose field holds the text: the name of a
\* group DM, the display name of the author, the content of the message
\* replied to, or the filename of its attachment
HtmlMessage(field, value, kind) ==
    [timestamp |-> << "t" >>,
     channel |-> IF field = "channel"
                 THEN [name |-> value, type |-> 3]
                 ELSE [name |-> << "g" >>, type |-> 0],
     author |-> [displayName |-> IF field = "author" THEN value ELSE <<>>,
                 username |-> << "u" >>,
                 discriminator |-> << "0" >>],
     content |-> << "c" >>,
     attachments |-> IF field = "filename"
                     THEN << [filename |-> value, kind |-> kind,
                              kilobytes |-> << "1", ".", "0" >>] >>
                     ELSE <<>>,
     reactions |-> << [emoji |-> << "+" >>, count |-> << "2" >>] >>,
     reply |-> [has |-> field = "reply", content |-> value]]

\* formatAsHTML, or formatAsHTMLWithAttachments for a bundled export, applied
\* to one message with the text in one of its fields
formatAsHTMLStep ==
    /\ out.fn = "none"
    /\ \E field \in HtmlFields, kind \in { "image", "video", "other" }, bundled \in BOOLEAN :
          LET messages == << HtmlMessage(field, text, kind) >>
          IN out' = IF bundled
                    THEN [fn |-> "formatAsHTMLWithAttachments", input |-> messages,
                          value |-> formatAsHTMLWithAttachments(messages)]
                    ELSE [fn |-> "formatAsHTML", input |-> messages,
                          value |-> formatAsHTML(messages)]
    /\ UNCHANGED text
    /\ UNCHANGED exportvars

NextFmt == parseMarkdownStep \/ formatAsCSVStep \/ formatAsHTMLStep

SpecFmt == InitFmt /\ [][NextFmt]_vars

\* ----------------------------------------------------------------- claims
IsChronological(s) ==
    \A a, b \in 1..Len(s) : a < b => s[a].timestamp <= s[b].timestamp

NoDuplicateIds(s) == \A a, b \in 1..Len(s) : s[a].id = s[b].id => a = b

Ids(s) == { s[k].id : k \in 1..Len(s) }

IdSeq(s) == [k \in 1..Len(s) |-> s[k].id]

\* the record with this id is well-formed and passes the filters of the run
Survivor(id) ==
    LET raw == RawById(id)
        S == options.userFilter.userIds
    IN /\ raw.author # NoAuthor
       /\ (options.userFilter.enabled /\ S # {} /\ options.userFilter.mode = "include")
             => raw.author \in S
       /\ (options.userFilter.enabled /\ S # {} /\ options.userFilter.mode = "exclude")
             => raw.author \notin S
       /\ options.dateRange.enabled
             => (options.dateRange.start <= raw.timestamp
                 /\ raw.timestamp <= options.dateRange.end)

\* the surviving record ids of a channel in the order the API delivered them
Survivors(arr) == SelectSeq(arr, Survivor)

Unfiltered == ~options.userFilter.enabled /\ ~options.dateRange.enabled

\* C1: the sequence handed to any formatter, the one of the bundled HTML
\* included, is non-decreasing by timestamp
C1_HandedChronological ==
    handed.formatter # "none" => IsChronological(handed.messages)

\* C2: no two messages of the final sequence share an identifier, whatever
\* pages the API delivered, overlapping ones included
C2_NoDuplicateIds ==
    /\ NoDuplicateIds(fetch.messages)
    /\ NoDuplicateIds(allMessages)
    /\ NoDuplicateIds(finalMessages)
    /\ NoDuplicateIds(handed.messages)

\* two non-empty pages delivered the same single record, and the final
\* sequence holds it once
C2_Witness ==
    /\ pc = "done"
    /\ pagesGot >= 2
    /\ Len(arrival) = 1
    /\ Len(finalMessages) = 1
    /\ finalMessages[1].id = arrival[1]
    /\ handed.messages = finalMessages

\* C3 as stated: with a cap K > 0 and more than K surviving messages, the
\* retrieval returns exactly K messages, the K chronologically earliest
C3_CapKeepsEarliest ==
    \A k \in DOMAIN returned :
        LET K == options.messageLimit
            surv == Survivors(returned[k].arrival)
            got == Ids(returned[k].messages)
        IN (K > 0 /\ Len(surv) > K) =>
              /\ Len(returned[k].messages) = K
              /\ \A a \in got, b \in Range(surv) \ got :
                    RawById(a).timestamp <= RawById(b).timestamp

\* C3 amended: with a cap K > 0 and more than K surviving messages, the
\* retrieval of a channel returns exactly K messages, the first K survivors
\* in the order of their delivery; and the run keeps the first K messages of
\* what the channels returned
C3_CapKeepsFirstDelivered ==
    LET K == options.messageLimit IN
    /\ \A k \in DOMAIN returned :
          LET surv == Survivors(returned[k].arrival)
          IN (K > 0 /\ Len(surv) > K) =>
                IdSeq(returned[k].messages) = SubSeq(surv, 1, K)
    /\ (pc = "done" /\ K > 0 /\ Len(allMessages) > K) =>
          finalMessages = SubSeq(allMessages, 1, K)

\* a capped retrieval that returned the later of two survivors, delivered first
C3_Witness ==
    /\ pc = "done"
    /\ options.messageLimit = 1
    /\ \E k \in DOMAIN returned :
          /\ Len(Survivors(returned[k].arrival)) > 1
          /\ returned[k].how = "cap"
          /\ \E id \in Range(returned[k].arrival) :
                /\ Survivor(id)
                /\ RawById(id).timestamp < returned[k].messages[1].timestamp

\* C4 as stated: under an include filter over S every author of the result is
\* in S, under an exclude filter over S none is, for every S
C4_FilterForEverySet ==
    options.userFilter.enabled =>
        \A k \in 1..Len(allMessages) :
            IF options.userFilter.mode = "include"
            THEN allMessages[k].author \in options.userFilter.userIds
            ELSE allMessages[k].author \notin options.userFilter.userIds

\* C4 amended: the same for every non-empty S
C4_FilterForNonEmptySet ==
    (options.userFilter.enabled /\ options.userFilter.userIds # {}) =>
        /\ \A k \in 1..Len(allMessages) :
              IF options.userFilter.mode = "include"
              THEN allMessages[k].author \in options.userFilter.userIds
              ELSE allMessages[k].author \notin options.userFilter.userIds
        /\ Ids(finalMessages) \subseteq Ids(allMessages)
        /\ Ids(handed.messages) \subseteq Ids(allMessages)

\* an include filter over {A} kept a message of A and dropped one of another
\* author
C4_Witness ==
    /\ pc = "done"
    /\ options.userFilter.enabled
    /\ options.userFilter.mode = "include"
    /\ options.userFilter.userIds = {"A"}
    /\ handed.messages # <<>>
    /\ \E id \in Range(arrival) : RawById(id).author \in Users \ {"A"}

C6_OnePerRecordId ==
    \A k \in DOMAIN returned :
        (options.messageLimit = 0 /\ Unfiltered /\ returned[k].how = "empty") =>
            /\ Ids(returned[k].messages) = Range(returned[k].arrival)
            /\ NoDuplicateIds(returned[k].messages)

\* C6 amended: with cap 0 and no filter the retrieval never stops for the
\* cap, and without failure it returns one message for each distinct record
\* id whose record has an author
C6_OnePerWellFormedRecordId ==
    \A k \in DOMAIN returned :
        (options.messageLimit = 0 /\ Unfiltered) =>
            /\ returned[k].how # "cap"
            /\ returned[k].how = "empty" =>
                  /\ Ids(returned[k].messages)
                       = { id \in Range(returned[k].arrival) : RawById(id).author # NoAuthor }
                  /\ NoDuplicateIds(returned[k].messages)

\* an unbounded, unfiltered retrieval of two pages with three well-formed
\* records and the record without author
C6_Witness ==
    /\ options.messageLimit = 0
    /\ Unfiltered
    /\ \E k \in DOMAIN returned :
          /\ returned[k].how = "empty"
          /\ Len(returned[k].arrival) >= 3
          /\ 7 \in Range(returned[k].arrival)
          /\ Len(returned[k].messages) = Len(returned[k].arrival) - 1

\* C7: a call that is answered N times with 429 and then with success
\* returns after N + 1 invocations when N < 10; the tenth 429 ends the call
\* with the rate-limit error after 10 invocations, and no call invokes the
\* operation more than 10 times
C7_RetryCeiling ==
    /\ call.invocations <= 10
    /\ call.rateLimited <= call.invocations
    /\ (pc = "fetch_resume" /\ callResult.kind = "page") =>
          /\ call.rateLimited < 10
          /\ call.invocations = call.rateLimited + 1
    /\ call.rateLimited >= 10 =>
          /\ pc = "fetch_resume"
          /\ callResult.kind = "rate_limited"
          /\ call.invocations = 10
    /\ (pc = "fetch_resume" /\ callResult.kind = "rate_limited") => call.rateLimited = 10

\* the first channel ended at the ceiling, and a call of the second returns a
\* page on its tenth invocation, after nine 429 answers
C7_Witness ==
    /\ Len(returned) = 1
    /\ returned[1].how = "rate_limited"
    /\ pc = "fetch_resume"
    /\ callResult.kind = "page"
    /\ call.rateLimited = 9
    /\ call.invocations = 10

\* C8: an answer that is an error other than 429 ends the call with that
\* error at once: no further invocation, no onRetry, no sleep, and the
\* limiter as it was
C8_ErrorPropagates ==
    [][ (pc = "rl_await" /\ answer'.kind = "error" /\ answer'.status # 429) =>
          /\ pc' = "fetch_resume"
          /\ callResult' = [kind |-> "error", status |-> answer'.status, body |-> <<>>]
          /\ call' = call
          /\ status' = status
          /\ rateLimiter' = rateLimiter ]_vars

\* a 403 ended a call that had been rate-limited twice before
C8_Witness ==
    /\ pc = "fetch_resume"
    /\ answer.kind = "error"
    /\ answer.status = 403
    /\ callResult.kind = "error"
    /\ callResult.status = 403
    /\ call.rateLimited = 2
    /\ call.invocations = 3

Failed(k) == returned[k].how \in { "error", "rate_limited", "max_retries" }

\* C9 as stated: a channel whose page request fails returns what it retained,
\* every remaining channel is retrieved, and the messages of the other
\* channels are all in the final output
C9_FailureKeepsOtherChannels ==
    (pc = "done" /\ \E k \in DOMAIN returned : Failed(k)) =>
        /\ Len(returned) = Len(channelsToExport)
        /\ \A k \in DOMAIN returned :
              /\ Failed(k) =>
                    IdSeq(returned[k].messages) = Reverse(Survivors(returned[k].arrival))
              /\ ~Failed(k) => Ids(returned[k].messages) \subseteq Ids(handed.messages)

\* the channels' results one after the other
RECURSIVE Concat(_)
Concat(rs) == IF rs = <<>> THEN <<>> ELSE Head(rs).messages \o Concat(Tail(rs))

\* C9 amended: a channel whose page request fails returns what it retained,
\* every remaining channel is retrieved, and the messages of all channels are
\* accumulated in channel order; the final output holds them all with cap 0
\* and the first K of them with a cap K > 0
C9_FailureKeepsOtherChannelsUpToCap ==
    (pc = "done" /\ \E k \in DOMAIN returned : Failed(k)) =>
        /\ Len(returned) = Len(channelsToExport)
        /\ \A k \in DOMAIN returned :
              Failed(k) =>
                  IdSeq(returned[k].messages) = Reverse(Survivors(returned[k].arrival))
        /\ allMessages = Concat(returned)
        /\ Ids(handed.messages) = Ids(finalMessages)
        /\ finalMessages =
              IF options.messageLimit > 0
              THEN Slice(allMessages, options.messageLimit)
              ELSE allMessages

\* the first channel failed after it retained a message, the second was
\* retrieved in full, and the cap cut the output
C9_Witness ==
    /\ pc = "done"
    /\ Len(returned) = 2
    /\ Failed(1)
    /\ returned[1].messages # <<>>
    /\ returned[2].messages # <<>>
    /\ Len(finalMessages) < Len(allMessages)

TotalAttachments == Len(FlatAttachments(finalMessages))

\* C11: a failed download does not end the batch: while the scheduler runs,
\* every attachment is queued, in flight or counted once as a success or a
\* failure, and when it has finished successes + failures is the total
C11_EveryAttachmentCountedOnce ==
    /\ pc \in { "dl_wait", "zip_gen", "done" } =>
          downloadedCount + failedCount + Len(downloadQueue) + Cardinality(activeDownloads)
            = TotalAttachments
    /\ pc \in { "zip_gen", "done" } =>
          /\ downloadQueue = <<>>
          /\ activeDownloads = {}
          /\ downloadedCount + failedCount = TotalAttachments
    /\ pc = "dl_wait" => (downloadQueue # <<>> \/ activeDownloads # {})

\* the scheduler finished a batch of six with successes and failures, the
\* first attachment among the failures
C11_Witness ==
    /\ pc = "zip_gen"
    /\ TotalAttachments = 6
    /\ failedCount >= 2
    /\ downloadedCount >= 2
    /\ "attachments/a.png" \notin DOMAIN zipFiles

\* the attachments of the batch scheduled before att under the same original
\* filename
EarlierNamesakes(att) ==
    { b \in Range(FlatAttachments(finalMessages)) :
        b.id < att.id /\ OriginalName(b) = OriginalName(att) }

\* the names with a counter suffix before the extension
Suffixed(att) ==
    { att.stem \o "_" \o ToString(n) \o att.ext : n \in 1..(4 * (MaxAttachments + 1)) }

AttachmentPaths == DOMAIN zipFiles \ { "export." \o options.format }

AttachmentById(id) == CHOOSE a \in Range(FlatAttachments(finalMessages)) : a.id = id

\* C12: an attachment scheduled after another of the same original filename
\* is downloaded and stored under that name with a counter suffix before the
\* extension; two attachments of the same original filename never share a
\* name, and no stored attachment is overwritten
C12_NamesakesStoredApart ==
    /\ \A d \in activeDownloads :
          EarlierNamesakes(d.attachment) # {} => d.filename \in Suffixed(d.attachment)
    /\ \A d, e \in activeDownloads :
          (d.attachment.id # e.attachment.id
             /\ OriginalName(d.attachment) = OriginalName(e.attachment))
            => d.filename # e.filename
    /\ \A p \in AttachmentPaths :
          /\ EarlierNamesakes(AttachmentById(zipFiles[p])) # {}
               => p \in { "attachments/" \o n : n \in Suffixed(AttachmentById(zipFiles[p])) }
          /\ \A d \in activeDownloads : p # "attachments/" \o d.filename
    /\ Cardinality(AttachmentPaths) = downloadedCount

\* the third attachment, a second a.png, is stored as a_1.png while the
\* first, after a retry, is still in flight under another name
C12_Witness ==
    /\ "attachments/a_1.png" \in DOMAIN zipFiles
    /\ zipFiles["attachments/a_1.png"] = 3
    /\ \E d \in activeDownloads :
          /\ d.attachment.id = 1
          /\ d.retryCount > 0
          /\ d.filename = "a_2.png"

DocumentPath == "export." \o options.format

\* C13: attachment failures alone never make the export fail, and a bundled
\* export whose downloads all failed ends with the archive saved, holding the
\* document that was formatted from every retained message with its
\* attachments
C13_DocumentDespiteFailures ==
    /\ (pc = "failed" /\ failedCount > 0) =>
          /\ DocumentPath \in DOMAIN zipFiles
          /\ downloadedCount + failedCount = TotalAttachments
    /\ (pc \in { "zip_gen", "done" } /\ options.includeAttachments) =>
          /\ DocumentPath \in DOMAIN zipFiles
          /\ handed.formatter # "none"
          /\ Ids(handed.messages) = Ids(finalMessages)
          /\ FlatAttachments(handed.messages) = FlatAttachments(finalMessages)
    /\ (pc = "done" /\ options.includeAttachments) => Saved = "archive"

\* the export of a batch of six is done, every download failed, the first
\* after its retries were used up
C13_Witness ==
    /\ pc = "done"
    /\ TotalAttachments = 6
    /\ failedCount = 6
    /\ downloadedCount = 0
    /\ filenameCount["a.png"] >= 6
    /\ DOMAIN zipFiles = { "export.html" }
    /\ Len(handed.messages) = 6

\* C14: a bundled export whose packaging fails (the archive library does not
\* load, the archive is not generated) still saves the formatted document
C14_FallbackDocument ==
    (pc = "failed" /\ options.includeAttachments) => Saved = "document"

\* C15: a run in which the retrieval of a channel ended at the retry ceiling
\* ends with the rate-limited status as its terminal status
C15_RateLimitedTerminalStatus ==
    (pc \in { "done", "failed" } /\ \E k \in DOMAIN returned : returned[k].how = "rate_limited")
        => status[1] = "RATE_LIMIT_ERROR"

\* the records arrived newest first
NewestFirst(arr) ==
    \A a, b \in 1..Len(arr) : a < b => RawById(arr[a]).timestamp > RawById(arr[b]).timestamp

\* C19: when the API delivers newest first, what fetchChannelMessages returns
\* is in chronological order on every return path
C19_ChronologicalOnEveryReturn ==
    \A k \in DOMAIN returned :
        NewestFirst(returned[k].arrival) => IsChronological(returned[k].messages)

\* the shortest prefix of the arrival order that holds n survivors
RECURSIVE PrefixWith(_, _)
PrefixWith(arr, n) ==
    IF n = 0 \/ arr = <<>> THEN <<>>
    ELSE << Head(arr) >> \o PrefixWith(Tail(arr), IF Survivor(Head(arr)) THEN n - 1 ELSE n)

\* C20: with a cap K > 0 the list of a channel never holds more than K
\* messages, a page request is only under way while it holds fewer, and the
\* retrieval that reaches K returns K messages and has processed no record
\* behind the one that reached it
C20_CapIsHardCeiling ==
    LET K == options.messageLimit IN
    K > 0 =>
      /\ Len(fetch.messages) <= K
      /\ pc \in { "courtesy", "rl_sleep", "rl_await", "fetch_resume" } => Len(fetch.messages) < K
      /\ \A k \in DOMAIN returned :
            /\ Len(returned[k].messages) <= K
            /\ returned[k].how = "cap" <=> Len(returned[k].messages) = K
      /\ (returned # <<>> /\ i = Len(channelsToExport) + 1
            /\ returned[Len(returned)].how = "cap") =>
              fetch.seenMessageIds = Range(PrefixWith(arrival, K))

\* the cap was reached in the middle of a page: a record of the page was
\* left unprocessed
C20_Witness ==
    /\ options.messageLimit > 0
    /\ returned # <<>>
    /\ i = Len(channelsToExport) + 1
    /\ returned[Len(returned)].how = "cap"
    /\ pagesGot = 2
    /\ fetch.seenMessageIds # Range(arrival)
    /\ Len(fetch.messages) = options.messageLimit

\* ------------------------------------------------- claims on the formatters
Metacharacters == { "<", ">", "&" }

\* C16: in the output of parseMarkdown no character that comes from the input
\* is <, > or &: each of them is in the output only as a part of a sequence a
\* replace of the renderer emitted (an entity or a tag), after all the passes.
C16_MetacharactersOnlyEscaped ==
    out.fn = "parseMarkdown" =>
        \A k \in 1..Len(out.value) : out.value[k].u => out.value[k].c \notin Metacharacters

\* a tag inside bold markup was rendered
C16_Witness ==
    /\ out.fn = "parseMarkdown"
    /\ text = << "*", "*", "<", "b", ">", "*", "*" >>
    /\ Chars(out.value) = << "<", "s", "t", "r", "o", "n", "g", ">", "&", "l", "t", ";", "b", "&", "g", "t", ";", "<",
                          "/", "s", "t", "r", "o", "n", "g", ">" >>
    /\ \E k \in 1..Len(out.value) : out.value[k].u
    /\ \E k \in 1..Len(out.value) : ~out.value[k].u /\ out.value[k].c \in Metacharacters

\* the entities of HTML
Entities ==
    { << "&", "a", "m", "p", ";" >>,
      << "&", "l", "t", ";" >>,
      << "&", "g", "t", ";" >>,
      << "&", "q", "u", "o", "t", ";" >>,
      << "&", "#", "0", "3", "9", ";" >> }

\* a text that consists of entities, one at least
RECURSIVE ConsistsOfEntities(_)
ConsistsOfEntities(str) ==
    \/ str = <<>>
    \/ \E e \in Entities :
          /\ Len(str) >= Len(e)
          /\ SubSeq(str, 1, Len(e)) = e
          /\ ConsistsOfEntities(SubSeq(str, Len(e) + 1, Len(str)))

AlreadyEscaped(str) == str # <<>> /\ ConsistsOfEntities(str)

\* C17 as claimed: a text of entities is rendered as itself, and rendering the
\* result again changes nothing.
C17_NoDoubleEscape ==
    (out.fn = "parseMarkdown" /\ AlreadyEscaped(text)) =>
        /\ Chars(out.value) = text
        /\ Chars(parseMarkdown(Chars(out.value))) = Chars(out.value)

\* the entity of a metacharacter, any other character as it is
EntityOf(c) ==
    CASE c = "&" -> << "&", "a", "m", "p", ";" >>
      [] c = "<" -> << "&", "l", "t", ";" >>
      [] c = ">" -> << "&", "g", "t", ";" >>
      [] c = "\"" -> << "&", "q", "u", "o", "t", ";" >>
      [] c = "'" -> << "&", "#", "0", "3", "9", ";" >>
      [] OTHER -> << c >>

RECURSIVE EscapeEach(_)
EscapeEach(str) == IF str = <<>> THEN <<>> ELSE EntityOf(Head(str)) \o EscapeEach(Tail(str))

\* the escaped text holds markup a pass of the renderer acts on
ActsOn(str) ==
    \E k \in 1..Len(MarkdownPasses), q \in 1..Len(escapeHtml(User(str))) :
        Match(escapeHtml(User(str)), q, MarkdownPasses[k]).ok

\* C17 amended: a text without markup the renderer acts on is rendered with
\* each of its characters & < > " ' replaced by the entity, the & of what
\* reads as an entity included: the rendering is the text itself only if the
\* text holds none of the five characters, and the rendering of a text with
\* one of them is rendered differently again.
C17_EveryAmpersandEscaped ==
    (out.fn = "parseMarkdown" /\ ~ActsOn(text)) =>
        /\ Chars(out.value) = EscapeEach(text)
        /\ (Chars(out.value) = text) <=> (\A k \in 1..Len(text) : EntityOf(text[k]) = << text[k] >>)
        /\ Chars(out.value) # text =>
              Chars(parseMarkdown(Chars(out.value))) # Chars(out.value)

\* the text &amp; was rendered, as &amp;amp;
C17_Witness ==
    /\ out.fn = "parseMarkdown"
    /\ text = << "&", "a", "m", "p", ";" >>
    /\ AlreadyEscaped(text)
    /\ ~ActsOn(text)
    /\ Chars(out.value) = << "&", "a", "m", "p", ";", "a", "m", "p", ";" >>

\* A parser of CSV after RFC 4180: the fields of a record are separated by
\* commas and the records by line breaks; a field in quotes holds commas,
\* line breaks and quotes, each quote doubled.
QuotesIn(s, a, b) == Cardinality({ r \in a..b : s[r] = "\"" })

\* the quote that closes the field opened at p; 0 when there is none
ClosingQuote(s, p) ==
    LET closing == { q \in (p + 1)..Len(s) :
                        /\ s[q] = "\""
                        /\ (q = Len(s) \/ s[q + 1] # "\"")
                        /\ QuotesIn(s, p + 1, q) % 2 = 1 }
    IN IF closing = {} THEN 0 ELSE First(closing)

RECURSIVE Unquote(_)
Unquote(v) ==
    IF v = <<>> THEN <<>>
    ELSE IF Head(v) = "\"" THEN << "\"" >> \o Unquote(Tail(Tail(v)))
    ELSE << Head(v) >> \o Unquote(Tail(v))

\* the field that begins at p: its last position and its value
FieldAt(s, p) ==
    IF p > Len(s) \/ s[p] \in { ",", "\n" }
    THEN [ok |-> TRUE, end |-> p - 1, value |-> <<>>]
    ELSE IF s[p] = "\""
    THEN LET q == ClosingQuote(s, p)
         IN [ok |-> q > 0 /\ (q = Len(s) \/ s[q + 1] \in { ",", "\n" }),
             end |-> q,
             value |-> IF q > 0 THEN Unquote(SubSeq(s, p + 1, q - 1)) ELSE <<>>]
    ELSE LET stops == { r \in p..Len(s) : s[r] \in { ",", "\n" } }
             e == IF stops = {} THEN Len(s) ELSE First(stops) - 1
         IN [ok |-> QuotesIn(s, p, e) = 0, end |-> e, value |-> SubSeq(s, p, e)]

RECURSIVE CsvParseFrom(_, _, _, _)
CsvParseFrom(s, p, row, rows) ==
    LET f == FieldAt(s, p)
    IN IF ~f.ok THEN [ok |-> FALSE, rows |-> <<>>]
       ELSE IF f.end >= Len(s) THEN [ok |-> TRUE, rows |-> Append(rows, Append(row, f.value))]
       ELSE IF s[f.end + 1] = ","
       THEN CsvParseFrom(s, f.end + 2, Append(row, f.value), rows)
       ELSE CsvParseFrom(s, f.end + 2, <<>>, Append(rows, Append(row, f.value)))

CsvParse(s) == CsvParseFrom(s, 1, <<>>, <<>>)

\* a content with each newline, \n or \r\n, replaced by one space
RECURSIVE NewlinesAsSpaces(_)
NewlinesAsSpaces(str) ==
    IF str = <<>> THEN <<>>
    ELSE IF Head(str) = "\n" THEN << " " >> \o NewlinesAsSpaces(Tail(str))
    ELSE IF Len(str) >= 2 /\ str[1] = "\r" /\ str[2] = "\n"
    THEN << " " >> \o NewlinesAsSpaces(Tail(Tail(str)))
    ELSE << Head(str) >> \o NewlinesAsSpaces(Tail(str))

\* C18: the output of formatAsCSV parses as CSV into the header row and one
\* row per message, each row of 7 fields, the Content field of a message's
\* row being the content with each newline replaced by one space.
C18_CsvRoundTrip ==
    out.fn = "formatAsCSV" =>
        LET parsed == CsvParse(out.value)
        IN /\ parsed.ok
           /\ Len(parsed.rows) = 1 + Len(out.input)
           /\ \A k \in 1..Len(parsed.rows) : Len(parsed.rows[k]) = 7
           /\ \A k \in 1..Len(out.input) :
                 parsed.rows[k + 1][4] = NewlinesAsSpaces(out.input[k].content)

\* ------------------------------------------------ claims on the request loop
\* C21: the first page request of a channel carries no cursor; every later
\* request carries the id of the last record of the page delivered before it,
\* retained or not; after an empty page the retrieval of the channel is over:
\* the next request, if there is one, belongs to the next channel.
C21_CursorFollowsLastRecord ==
    [][/\ pc' = "rl_await" => call'.cursor = served'.lastId
       /\ (pc' = "rl_await" /\ pagesGot' = 0) => call'.cursor = 0
       /\ i' >= i
       /\ (pc = "fetch_resume" /\ callResult.kind = "page" /\ callResult.body = <<>>) =>
             i' = i + 1]_vars

\* a request that carries the id of a record that was not retained: the
\* record without author, last of the first page
C21_Witness ==
    /\ pc = "rl_await"
    /\ pagesGot = 1
    /\ call.cursor = 7
    /\ served.lastId = 7
    /\ fetch.messages # <<>>
    /\ 7 \notin Ids(fetch.messages)

\* ------------------------------------------------ claims on the rate limiter
\* the last answer was a 429 without a retry-after header, the k-th 429 of
\* the call
HeaderlessFailure(a, c) == a.status = 429 /\ a.header = "" /\ c.rateLimited >= 1

\* C22: the delay computed for the k-th consecutive 429 without a server hint is
\* min(1000 * 2^(k-1) + j, 60000) ms for some jitter 0 <= j < 1000; it never
\* exceeds 60000 ms, and from one such failure to the next it does not decrease.
C22_BackoffFormula ==
    [][/\ HeaderlessFailure(answer', call') =>
             /\ \E j \in 0..999 :
                   call'.delay = Min(1000 * 2 ^ (call'.rateLimited - 1) + j, 60000)
             /\ call'.delay <= 60000
       /\ ( /\ HeaderlessFailure(answer, call)
            /\ HeaderlessFailure(answer', call')
            /\ call'.rateLimited = call.rateLimited + 1 ) =>
             call'.delay >= call.delay]_vars

\* the seventh 429 in a row without a hint: the backoff has reached the ceiling
C22_Witness ==
    /\ HeaderlessFailure(answer, call)
    /\ call.rateLimited = 7
    /\ call.delay = 60000
    /\ pc = "rl_sleep"

\* the seconds a retry-after hint asks for; "x" is a hint that is not a
\* number of seconds: the HTTP-date form of the header, a date 2 seconds ahead
HintSeconds(h) == CASE h = "0" -> 0 [] h = "2" -> 2 [] OTHER -> 2

\* C23: after a 429 that carries a server hint of s seconds the operation is not
\* invoked again before s * 1000 ms have passed, whatever the hint is (0 and
\* values that are not numbers included).
C23_HintHonoured ==
    (pc = "rl_await" /\ answer.status = 429 /\ answer.header # "" /\ call.rateLimited >= 1) =>
        call.waited >= HintSeconds(answer.header) * 1000

\* C24: when executeWithRetry has returned a page the retry counter is 0 and
\* the next eligible time is cleared, so the ceiling counts 429 answers in a
\* row only: a call fails with a rate-limit error only after maxRetries 429
\* answers of its own, whatever the calls before it went through.
C24_SuccessResetsLimiter ==
    /\ (pc = "fetch_resume" /\ callResult.kind = "page") =>
          /\ rateLimiter.retryCount = 0
          /\ ~rateLimiter.retryAfter.isSet
    /\ callResult.kind \in { "rate_limited", "max_retries" } => call.rateLimited >= 10

\* the second page request of a retrieval is invoked for the tenth time after
\* nine 429 answers, and the request before it had succeeded after nine too
C24_Witness ==
    /\ pc = "rl_await"
    /\ pagesGot = 1
    /\ served.nearCeiling
    /\ call.rateLimited = 9
    /\ rateLimiter.retryCount = 9

\* the operation has been invoked again after a 429 answer of the same call
Reinvoked == pc = "rl_await" /\ answer.status = 429 /\ call.rateLimited >= 1

\* C25 as stated: between a 429 answer and the invocation that follows it
\* onRetry is called exactly once, before the sleep, with the delay that is
\* then slept.
C25_OnRetryOncePerRetry ==
    /\ pc = "rl_sleep" => (call.reports = 1 /\ call.reported = rateLimiter.retryAfter.due)
    /\ Reinvoked => (call.reports = 1 /\ call.reported = call.waited)

\* C25 amended: when the delay computed for a 429 answer is positive, onRetry
\* is called exactly once between the answer and the next invocation, before
\* the sleep and with the delay that is then slept; when the delay is 0 or not
\* a number the operation is invoked again at once, with no onRetry call and
\* no sleep.
C25_OnRetryOnceBeforePositiveSleep ==
    /\ pc = "rl_sleep" =>
          /\ call.delay > 0
          /\ call.reports = 1
          /\ call.reported = call.delay
          /\ call.reported = rateLimiter.retryAfter.due
          /\ call.waited = 0
    /\ Reinvoked =>
          IF call.delay > 0
          THEN call.reports = 1 /\ call.reported = call.delay /\ call.waited = call.delay
          ELSE call.delay \in { 0, NaN } /\ call.reports = 0 /\ call.waited = 0

\* an invocation after a 429 with hint 2: one onRetry call with 2000 ms, then
\* a sleep of 2000 ms
C25_Witness ==
    /\ Reinvoked
    /\ answer.header = "2"
    /\ call.reports = 1
    /\ call.reported = 2000
    /\ call.waited = 2000

\* ------------------------------------------------ claims on the channel loop
\* C26: the retrieval of each channel starts with retry counter 0 and no
\* pending wait, its first request being issued at once, whatever state the
\* limiter of the channel before was left in; so a retrieval ends with a
\* rate-limit error only after maxRetries 429 answers in a row of its own.
C26_FreshLimiterPerChannel ==
    [][/\ (i' # i /\ i' <= Len(channelsToExport)) =>
             /\ rateLimiter'.retryCount = 0
             /\ ~InFuture(rateLimiter'.retryAfter)
             /\ pc' = "rl_await"
             /\ call'.invocations = 1
       /\ callResult'.kind # "max_retries"
       /\ callResult'.kind = "rate_limited" => call'.rateLimited = 10]_vars

\* the second channel, whose request is invoked for the tenth time after nine
\* 429 answers, after the first channel ended by exhausting the ceiling
C26_Witness ==
    /\ i = 2
    /\ Len(returned) = 1
    /\ returned[1].how = "rate_limited"
    /\ pc = "rl_await"
    /\ call.rateLimited = 9
    /\ call.invocations = 10

\* a page request of the retrieval of channel i is in flight, waited for, or
\* its answer is being handled
Retrieving == pc \in { "rl_sleep", "rl_await", "fetch_resume", "courtesy" }

\* C27: channels are retrieved one after another in list order: while the
\* retrieval of the channel at position i is under way, the retrievals of the
\* i - 1 channels before it have returned (with messages, or after a failure)
\* and none after it has begun; the k-th retrieval that returned was served
\* records of the k-th channel of the list only; a step moves to the next
\* position or leaves the loop, and only in the step in which the retrieval of
\* the current channel returns.
C27_ChannelsSequential ==
    [][/\ Retrieving' =>
             /\ i' \in 1..Len(channelsToExport)
             /\ Len(returned') = i' - 1
       /\ \A k \in 1..Len(returned') :
             \A n \in 1..Len(returned'[k].arrival) :
                 RawById(returned'[k].arrival[n]).channel_id = channelsToExport[k]
       /\ (Retrieving /\ i' # i) =>
             /\ i' = i + 1
             /\ pc = "fetch_resume"
             /\ Len(returned') = Len(returned) + 1]_vars

\* the second channel's request is in flight after the first channel's
\* retrieval returned with records
C27_Witness ==
    /\ pc = "rl_await"
    /\ i = 2
    /\ Len(returned) = 1
    /\ returned[1].messages # <<>>

\* ------------------------------------------- claims on malformed records
\* the records of an arrival order whose normalisation does not throw
WellFormed(arr) == SelectSeq([n \in 1..Len(arr) |-> RawById(arr[n])],
                             LAMBDA r : r.author # NoAuthor)

\* what the loop retains of an arrival order when the malformed records are
\* taken out of it beforehand
WithoutMalformed(arr) == ProcessRecords(WellFormed(arr), <<>>, {}, 0, options).messages

\* C28: a record whose normalisation throws is the only thing left out: what a
\* retrieval has retained after each step that changes it, and what it
\* returns, is what it would retain of the same records with the malformed
\* ones absent (a retrieval starts with nothing retained of nothing arrived);
\* and a page that holds a
\* malformed record is followed by the next page request like any other,
\* unless the cap ended the retrieval.
C28_MalformedRecordSkipped ==
    [][/\ (fetch' # fetch \/ arrival' # arrival) =>
             fetch'.messages = WithoutMalformed(arrival')
       /\ returned' # returned =>
             LET ret == returned'[Len(returned')]
             IN /\ Len(returned') = Len(returned) + 1
                /\ ret.messages = IF ret.how = "cap"
                                  THEN WithoutMalformed(ret.arrival)
                                  ELSE Reverse(WithoutMalformed(ret.arrival))
       /\ (pc = "fetch_resume" /\ callResult.kind = "page" /\ callResult.body # <<>>) =>
             \/ pc' = "courtesy"
             \/ /\ Len(returned') = Len(returned) + 1
                /\ returned'[Len(returned')].how = "cap"
                /\ Len(returned'[Len(returned')].messages) = options.messageLimit]_vars

\* a first page that begins with the malformed record: the record after it
\* and those of the second page are retained, and a third request is made
C28_Witness ==
    /\ pc = "rl_await"
    /\ pagesGot = 2
    /\ Len(arrival) >= 3
    /\ arrival[1] = 7
    /\ Len(fetch.messages) = Len(arrival) - 1

\* ------------------------------------------- claims on the download scheduler
\* the scheduler's loop is over: the archive is being generated, or the run
\* has ended
SchedulerOver == pc \in { "zip_gen", "done", "failed" }

AttachmentIds(atts) == [n \in 1..Len(atts) |-> atts[n].id]

\* C29: when every download settles the scheduler terminates, and its loop is
\* over only with an empty queue and nothing in flight; the attachments
\* started so far followed by those still queued are the batch in its order,
\* so each is started once and in queue order; and the scheduler waits only
\* with a full window or an empty queue, so a download that completes while
\* attachments are queued lets the next one in before the next wait.
C29_SchedulerTerminates ==
    /\ [](SchedulerOver => (downloadQueue = <<>> /\ activeDownloads = {}))
    /\ [](pc \in { "dl_wait", "zip_gen", "done" } =>
             /\ started \o AttachmentIds(downloadQueue)
                   = AttachmentIds(FlatAttachments(finalMessages))
             /\ { d.attachment.id : d \in activeDownloads } \subseteq Range(started)
             /\ Cardinality({ d.attachment.id : d \in activeDownloads })
                   = Cardinality(activeDownloads))
    /\ [](pc = "dl_wait" =>
             \/ downloadQueue = <<>>
             \/ Cardinality(activeDownloads) = 5)
    /\ <>SchedulerOver

\* six attachments: the first download has settled and the sixth, which was
\* waiting in the queue, is in flight with four of the first five
C29_Witness ==
    /\ pc = "dl_wait"
    /\ Len(FlatAttachments(finalMessages)) = 6
    /\ downloadedCount + failedCount = 1
    /\ started = << 1, 2, 3, 4, 5, 6 >>
    /\ Cardinality(activeDownloads) = 5
    /\ downloadQueue = <<>>

\* the downloads of attachment id that are in flight
ActiveOf(active, id) == { d \in active : d.attachment.id = id }

\* the attachment host has just answered 429
Answered429 == last429' # last429

EntriesOf(files, id) ==
    { p \in DOMAIN files \ { "export." \o options.format } : files[p] = id }

\* the downloads of videos whose direct fetch threw: the fallback is under way
VideoFallbacks(active) ==
    { d \in active : d.attachment.kind = "video" /\ d.stage \in { "no_cors", "element" } }

\* C31: a video whose direct fetch failed with a cross-origin error stays in
\* the fallback until its download settles, and it settles as a failure: the
\* failure tally grows by one, the success tally does not, and the archive has
\* no entry for it.
C31_VideoFallbackFails ==
    [][\A d \in VideoFallbacks(activeDownloads) :
          /\ EntriesOf(zipFiles', d.attachment.id) = {}
          /\ ActiveOf(activeDownloads', d.attachment.id) \subseteq VideoFallbacks(activeDownloads')
          /\ (d \notin activeDownloads' /\ ActiveOf(activeDownloads', d.attachment.id) = {}) =>
                /\ failedCount' = failedCount + 1
                /\ downloadedCount' = downloadedCount]_vars

\* the video v.mp4, second of the batch, is in downloadViaElement after its
\* direct fetch threw, the first attachment having been stored
C31_Witness ==
    /\ pc = "dl_wait"
    /\ downloadedCount = 1
    /\ \E d \in VideoFallbacks(activeDownloads) : d.attachment.id = 2 /\ d.stage = "element"

\* C32: when a bundled export completes the archive holds the formatted
\* document and, under attachments/, one entry for each attachment that was
\* downloaded and none for the others: as many attachment entries as the
\* success tally counts, each with the blob of another attachment.
C32_ArchiveHoldsSuccesses ==
    pc = "done" =>
        /\ ("export." \o options.format) \in DOMAIN zipFiles
        /\ Cardinality(AttachmentPaths) = downloadedCount
        /\ \A p, q \in AttachmentPaths : zipFiles[p] = zipFiles[q] => p = q
        /\ downloadedCount + failedCount = Len(FlatAttachments(finalMessages))

\* C34: the names under which the attachments of a batch are stored are
\* pairwise distinct whatever the original filenames are: two downloads in
\* flight never hold the same name, a download in flight never holds the name
\* of an archive entry of another attachment, so that no stored blob is
\* overwritten and every stored blob keeps its entry.
C34_StoredNamesDistinct ==
    [][/\ \A d, e \in activeDownloads' :
             d.filename = e.filename => d.attachment.id = e.attachment.id
       /\ \A d \in activeDownloads' :
             ("attachments/" \o d.filename) \in AttachmentPaths =>
                 zipFiles["attachments/" \o d.filename] = d.attachment.id
       /\ \A p \in AttachmentPaths :
             p \in DOMAIN zipFiles' /\ zipFiles'[p] = zipFiles[p]]_vars

\* the attachments of the batch scheduled before att under the same original
\* filename
NamesakesBefore(att) ==
    Cardinality({ n \in 1..Len(started) :
                    /\ started[n] < att.id
                    /\ OriginalName(AttachmentById(started[n])) = OriginalName(att) })

\* the name the claim gives to an attachment that has k namesakes before it
NameAfter(att, k) ==
    IF k = 0 THEN OriginalName(att) ELSE att.stem \o "_" \o ToString(k) \o att.ext

\* C33: the name an attachment is stored under depends only on its original
\* filename and on the number of attachments of the same original filename
\* scheduled before it, a rate-limit retry changing neither the name nor the
\* collision counter: the counter of a name is the number of attachments
\* started under it, and every download in flight stores under the name its
\* rank among its namesakes gives it.
C33_NameFixedByRank ==
    pc = "dl_wait" =>
        /\ \A name \in DOMAIN filenameCount :
              filenameCount[name] =
                  Cardinality({ n \in 1..Len(started) :
                                  OriginalName(AttachmentById(started[n])) = name })
        /\ \A d \in activeDownloads :
              d.filename = NameAfter(d.attachment, NamesakesBefore(d.attachment))

\* C35: in the bundled HTML document the local path written for an attachment
\* whose blob is in the archive is the archive path of that blob, also when
\* the stored filename carries a collision suffix.
C35_LocalPathIsArchivePath ==
    (pc \in { "zip_gen", "done" } /\ handed.formatter = "formatAsHTMLWithAttachments") =>
        \A n \in 1..Len(FlatAttachments(handed.messages)) :
            LET att == FlatAttachments(handed.messages)[n]
            IN EntriesOf(zipFiles, att.id) # {} =>
                   LocalPath(att) \in EntriesOf(zipFiles, att.id)

\* ---------------------------------------- claims on the HTML documents
\* C36: in the documents of formatAsHTML and formatAsHTMLWithAttachments no
\* character that comes from a field a user controls (reply preview, author
\* name, channel name, attachment filename, message content) is <, > or a
\* quote character.
C36_NoUserTextUnescaped ==
    out.fn \in { "formatAsHTML", "formatAsHTMLWithAttachments" } =>
        \A k \in 1..Len(out.value) :
            out.value[k].u => out.value[k].c \notin { "<", ">", "\"", "'" }

\* ------------------------------------------------ claims on the filters
\* the user filter of the run is enabled with an empty set of user ids
EmptyUserFilter == options.userFilter.enabled /\ options.userFilter.userIds = {}

\* the options of the run with the user filter disabled
FilterDisabled == [options EXCEPT !.userFilter = NoFilter]

\* C37: with the user filter enabled and its set of user ids empty, in either
\* mode, the filter rejects no record: every page is processed to the result
\* it would have with the filter disabled.
C37_EmptyUserFilterAdmitsAll ==
    (EmptyUserFilter /\ pc = "fetch_resume" /\ callResult.kind = "page") =>
        /\ \A n \in 1..Len(callResult.body) :
              processMessage(callResult.body[n], options).kind # "null"
        /\ ProcessRecords(callResult.body, fetch.messages, fetch.seenMessageIds,
                          fetch.fetchedCount, options)
              = ProcessRecords(callResult.body, fetch.messages, fetch.seenMessageIds,
                               fetch.fetchedCount, FilterDisabled)

\* a second page is being processed under an include filter with no user ids,
\* records of the first page having been retained
C37_Witness ==
    /\ EmptyUserFilter
    /\ options.userFilter.mode = "include"
    /\ pc = "fetch_resume"
    /\ callResult.kind = "page"
    /\ callResult.body # <<>>
    /\ fetch.messages # <<>>

\* ------------------------------------------------ claims on termination
\* the loop over the channels of performExport is over
RetrievalOver == i = Len(channelsToExport) + 1

\* C38: without a cap the retrieval terminates for every behaviour of the API
\* in which each request is answered, pages whose records were all seen before
\* included: the loop over the channels comes to its end.
C38_RetrievalTerminates == (options.messageLimit = 0) => <>RetrievalOver

\* ------------------------------------------------ claims on the cap
\* the messages the retrievals so far returned, channel after channel
Retrieved == Join([k \in 1..Len(returned) |-> returned[k].messages], <<>>)

\* the ids of the attachments of the retained messages
RetainedAttachmentIds == Range(AttachmentIds(FlatAttachments(finalMessages)))

\* C39: in an export of several channels with a cap K > 0 every channel
\* contributes at most K messages; the list retained after the loop is the
\* first K of the concatenation of the contributions; the formatter is handed
\* the retained messages, at most K; and only attachments of retained messages
\* are started or stored in the archive.
C39_CapOverChannels ==
    (options.messageLimit > 0 /\ Len(channelsToExport) > 1) =>
        /\ \A k \in 1..Len(returned) :
              Len(returned[k].messages) <= options.messageLimit
        /\ RetrievalOver =>
              /\ finalMessages = Slice(Retrieved, options.messageLimit)
              /\ Len(finalMessages) <= options.messageLimit
        /\ handed # NotHanded =>
              /\ Len(handed.messages) <= options.messageLimit
              /\ Range(handed.messages) = Range(finalMessages)
        /\ Range(started) \subseteq RetainedAttachmentIds
        /\ \A p \in DOMAIN zipFiles \ { "export." \o options.format } :
              zipFiles[p] \in RetainedAttachmentIds

\* an export of two channels under a cap is done: the second channel's
\* messages were cut off, among them one with an attachment, and the archive
\* holds the attachment of a retained message
C39_Witness ==
    /\ options.messageLimit > 0
    /\ Len(channelsToExport) = 2
    /\ pc = "done"
    /\ Len(allMessages) > Len(finalMessages)
    /\ Range(AttachmentIds(FlatAttachments(allMessages))) \ RetainedAttachmentIds # {}
    /\ started # <<>>
    /\ DOMAIN zipFiles \ { "export." \o options.format } # {}
    /\ handed # NotHanded

====
